---- MODULE Spec2Model ----
(***************************************************************************)
(* A model of the Thermognosis scoring and validation engine:              *)
(*   - ThermoelectricValidator (pipeline/validation.py)                    *)
(*   - QualityVector / QualityScorer (pipeline/scoring.py)                 *)
(*                                                                         *)
(* float64 values are records [k, n, d]:                                   *)
(*   k = "nan"              the NaN marker                                 *)
(*   k = "inf",  n = +1/-1  plus / minus infinity                          *)
(*   k = "fin"              the rational n/d in lowest terms, d > 0        *)
(*   k = "sqrt"             the square root of the non-square rational n/d *)
(* The inputs are small integers and the only divisors are powers of two,  *)
(* so every finite intermediate value is exactly representable and the     *)
(* rational arithmetic below is the float64 arithmetic.                    *)
(***************************************************************************)
EXTENDS Integers, Sequences, FiniteSets, TLC

\* ------------------------------------------------------------------------
\* Bounds
\* ------------------------------------------------------------------------

\* Longest input array handed to the validator.
MaxLen == 2

\* ------------------------------------------------------------------------
\* float64
\* ------------------------------------------------------------------------

Abs(x) == IF x < 0 THEN -x ELSE x

RECURSIVE Gcd(_, _)
Gcd(a, b) == IF b = 0 THEN a ELSE Gcd(b, a % b)

NaN == [k |-> "nan", n |-> 0, d |-> 1]
PInf == [k |-> "inf", n |-> 1, d |-> 1]
NInf == [k |-> "inf", n |-> -1, d |-> 1]

\* The rational n/d (d # 0) in lowest terms.
Rat(n, d) ==
    LET s == IF d < 0 THEN -1 ELSE 1
        g == Gcd(Abs(n), Abs(d))
    IN  [k |-> "fin", n |-> (s * n) \div g, d |-> (s * d) \div g]

F(i) == [k |-> "fin", n |-> i, d |-> 1]

IsNaN(x) == x.k = "nan"
Sign(x) == IF x.n > 0 THEN 1 ELSE IF x.n < 0 THEN -1 ELSE 0
Infinity(s) == IF s > 0 THEN PInf ELSE NInf

FNeg(x) ==
    IF x.k = "nan" THEN NaN ELSE [x EXCEPT !.n = -x.n]

FMul(x, y) ==
    IF x.k = "nan" \/ y.k = "nan" THEN NaN
    ELSE IF x.k = "inf" \/ y.k = "inf"
         THEN IF Sign(x) = 0 \/ Sign(y) = 0 THEN NaN
              ELSE Infinity(Sign(x) * Sign(y))
         ELSE Rat(x.n * y.n, x.d * y.d)

FDiv(x, y) ==
    IF x.k = "nan" \/ y.k = "nan" THEN NaN
    ELSE IF y.k = "inf"
         THEN IF x.k = "inf" THEN NaN ELSE F(0)
    ELSE IF x.k = "inf"
         THEN Infinity(Sign(x) * (IF Sign(y) < 0 THEN -1 ELSE 1))
    ELSE IF y.n = 0
         THEN IF x.n = 0 THEN NaN ELSE Infinity(Sign(x))
    ELSE Rat(x.n * y.d, x.d * y.n)

FAdd(x, y) ==
    IF x.k = "nan" \/ y.k = "nan" THEN NaN
    ELSE IF x.k = "inf" /\ y.k = "inf"
         THEN IF x.n = y.n THEN x ELSE NaN
    ELSE IF x.k = "inf" THEN x
    ELSE IF y.k = "inf" THEN y
    ELSE LET g == Gcd(x.d, y.d)
         IN  Rat(x.n * (y.d \div g) + y.n * (x.d \div g), (x.d \div g) * y.d)

FSquare(x) == FMul(x, x)

IsSquare(m) == \E r \in 0..m : r * r = m
Root(m) == CHOOSE r \in 0..m : r * r = m

FSqrt(x) ==
    IF x.k = "nan" THEN NaN
    ELSE IF x.k = "inf" THEN (IF x.n > 0 THEN PInf ELSE NaN)
    ELSE IF x.n < 0 THEN NaN
    ELSE IF IsSquare(x.n) /\ IsSquare(x.d) THEN Rat(Root(x.n), Root(x.d))
    ELSE [k |-> "sqrt", n |-> x.n, d |-> x.d]

\* x > 0.0 and x >= 0.0 as IEEE comparisons: False on NaN.
FGreater0(x) == x.k # "nan" /\ x.n > 0
FGreaterEqual0(x) == x.k # "nan" /\ x.n >= 0
FIsZero(x) == x.k = "fin" /\ x.n = 0

FSub(x, y) == FAdd(x, FNeg(y))
FAbs(x) == IF x.k = "nan" THEN NaN ELSE [x EXCEPT !.n = Abs(x.n)]

\* The sign of a/b - c/d for b, d > 0, by integer parts and remainders (no
\* cross product, which could leave the integer range).
RECURSIVE CmpQ(_, _, _, _)
CmpQ(a, b, c, d) ==
    LET qa == a \div b
        qc == c \div d
        ra == a % b
        rc == c % d
    IN  IF qa # qc THEN (IF qa > qc THEN 1 ELSE -1)
        ELSE IF ra = 0 /\ rc = 0 THEN 0
        ELSE IF ra = 0 THEN -1
        ELSE IF rc = 0 THEN 1
        ELSE -CmpQ(b, ra, d, rc)

\* The sign of x - y for x, y finite or infinite (not NaN).
Cmp(x, y) ==
    IF x.k = "inf" \/ y.k = "inf"
    THEN LET a == IF x.k = "inf" THEN 2 * x.n ELSE 0
             b == IF y.k = "inf" THEN 2 * y.n ELSE 0
         IN  IF a > b THEN 1 ELSE IF a < b THEN -1 ELSE 0
    ELSE CmpQ(x.n, x.d, y.n, y.d)

\* IEEE comparisons: False when an operand is NaN.
FLt(x, y) == x.k # "nan" /\ y.k # "nan" /\ Cmp(x, y) < 0
FLe(x, y) == x.k # "nan" /\ y.k # "nan" /\ Cmp(x, y) <= 0
FGt(x, y) == FLt(y, x)
FGe(x, y) == FLe(y, x)

RECURSIVE FSum(_)
FSum(s) == IF Len(s) = 0 THEN F(0) ELSE FAdd(FSum(SubSeq(s, 1, Len(s) - 1)), s[Len(s)])

\* ------------------------------------------------------------------------
\* numpy arrays (one-dimensional) and broadcasting
\* ------------------------------------------------------------------------

\* An argument is a Python scalar or a one-dimensional array.
Scalar(v) == [scalar |-> TRUE, a |-> <<v>>]
Array(s) == [scalar |-> FALSE, a |-> s]
\* An optional argument left at None.
None == [given |-> FALSE, data |-> Array(<<>>)]
Some(x) == [given |-> TRUE, data |-> x]
\* The weights argument left at None.
NoWeights == [given |-> FALSE, data |-> <<>>]

\* _to_array: np.atleast_1d(np.asarray(data, float64)); a scalar becomes an
\* array of shape (1,), a one-dimensional array keeps its elements.
ToArray(data) == IF data.scalar THEN <<data.a[1]>> ELSE data.a

\* The shape two operands of shapes (n,) and (m,) broadcast to; -1 when
\* numpy raises "operands could not be broadcast together".
BroadcastShape(n, m) ==
    IF n = -1 \/ m = -1 THEN -1
    ELSE IF n = m THEN n
    ELSE IF n = 1 THEN m
    ELSE IF m = 1 THEN n
    ELSE -1

\* Element i of array a stretched to a broadcast shape.
At(a, i) == a[IF Len(a) = 1 THEN 1 ELSE i]

Zeros(n) == [i \in 1..n |-> F(0)]

\* ------------------------------------------------------------------------
\* ThermoelectricValidator (pipeline/validation.py)
\* ------------------------------------------------------------------------

VARIABLES
    vargs,  \* the arguments of the validator call: S, sigma, T, kappa, err_*
    vout,   \* the outcome of the last validator call
    sin,    \* the arguments the scoring objects are built from
    scorer, \* the QualityScorer instance, once constructed
    qobj,   \* the QualityVector objects, once constructed
    sout,   \* the outcome of the last scoring call
    cin,    \* the arguments of the calculate_credibility call
    cout,   \* the outcome of the last calculate_credibility call
    penv,   \* what the database and the backend hold for the pipelines
    prun,   \* the gap-detection or ranking call in progress, or the last one
    hin,    \* the temperature sample and binning of the acquisition target
    hout,   \* the acquisition target computed last
    wenv,   \* the arguments and the backend of the RustCore wrapper
    wout,   \* the outcome of the last RustCore wrapper call
    benv,   \* the decorated function: max_retries and what each invocation does
    brun,   \* the call of the decorated function in progress, or the last one
    uenv,   \* the batches handed to write_canonical_materials and what the stores do
    urun,   \* the write_canonical_materials call in progress, or the last one
    fenv,   \* the I/O call of each thread and where it fails, and whether the file exists
    ffs,    \* the lock table, the locks and the files of one resolved path
    fth,    \* each thread's position in its I/O call and what it holds
    iin,    \* the record or DataFrame handed to the ingestor
    iout,   \* the outcome of the last ingestor call: the entities returned
    oenv,   \* the files, the backend and the clock run_pipeline meets
    orun,   \* the locals of run_pipeline and its position
    mcls,   \* per manager class: _instance, the objects made, initialized and returned
    mth     \* per thread: its position inside __new__

vars ==
    <<vargs, vout, sin, scorer, qobj, sout, cin, cout, penv, prun, hin, hout,
      wenv, wout, benv, brun, uenv, urun, fenv, ffs, fth, iin, iout, oenv,
      orun, mcls, mth>>
vvars == <<vargs, vout>>
svars == <<sin, scorer, qobj, sout>>
cvars == <<cin, cout>>
pvars == <<penv, prun>>
hvars == <<hin, hout>>
wvars == <<wenv, wout>>
bvars == <<benv, brun>>
uvars == <<uenv, urun>>
fvars == <<fenv, ffs, fth>>
ivars == <<iin, iout>>
ovars == <<oenv, orun>>
mvars == <<mcls, mth>>

\* What the operations of one component leave alone: the other components.
restOfValidator ==
    <<svars, cvars, pvars, hvars, wvars, bvars, uvars, fvars, ivars, ovars,
      mvars>>
restOfScorer ==
    <<vvars, cvars, pvars, hvars, wvars, bvars, uvars, fvars, ivars, ovars,
      mvars>>
restOfCredibility ==
    <<vvars, svars, pvars, hvars, wvars, bvars, uvars, fvars, ivars, ovars,
      mvars>>
restOfPipelines ==
    <<vvars, svars, cvars, hvars, wvars, bvars, uvars, fvars, ivars, ovars,
      mvars>>
restOfAcquisition ==
    <<vvars, svars, cvars, pvars, wvars, bvars, uvars, fvars, ivars, ovars,
      mvars>>
restOfWrapper ==
    <<vvars, svars, cvars, pvars, hvars, bvars, uvars, fvars, ivars, ovars,
      mvars>>
restOfBackoff ==
    <<vvars, svars, cvars, pvars, hvars, wvars, uvars, fvars, ivars, ovars,
      mvars>>
restOfWriter ==
    <<vvars, svars, cvars, pvars, hvars, wvars, bvars, fvars, ivars, ovars,
      mvars>>
restOfFiles ==
    <<vvars, svars, cvars, pvars, hvars, wvars, bvars, uvars, ivars, ovars,
      mvars>>
restOfIngestor ==
    <<vvars, svars, cvars, pvars, hvars, wvars, bvars, uvars, fvars, ovars,
      mvars>>
restOfOrchestrator ==
    <<vvars, svars, cvars, pvars, hvars, wvars, bvars, uvars, fvars, ivars,
      mvars>>
restOfManagers ==
    <<vvars, svars, cvars, pvars, hvars, wvars, bvars, uvars, fvars, ivars,
      ovars>>

\* The outcome of a call: the exception raised (or "none"), the violation
\* count an error carries, and the arrays returned.
Outcome(op, strict, raised, violations, T, S, sigma, kappa, zT, zT_err, is_valid) ==
    [op |-> op, strict |-> strict, raised |-> raised, violations |-> violations,
     T |-> T, S |-> S, sigma |-> sigma, kappa |-> kappa,
     zT |-> zT, zT_err |-> zT_err, is_valid |-> is_valid]

NoCall == Outcome("none", FALSE, "none", 0, <<>>, <<>>, <<>>, <<>>, <<>>, <<>>, <<>>)

\* kappa_arr == 0 replaced by NaN (the safe denominator).
SafeKappa(kappa_arr) ==
    [i \in 1..Len(kappa_arr) |->
        IF FIsZero(kappa_arr[i]) THEN NaN ELSE kappa_arr[i]]

\* The broadcast check of the four observables.
SameShape(S_arr, sigma_arr, T_arr, kappa_arr) ==
    /\ Len(S_arr) = Len(sigma_arr)
    /\ Len(sigma_arr) = Len(T_arr)
    /\ Len(T_arr) = Len(kappa_arr)

\* zT = (S^2 * sigma * T) / safe_kappa, element by element.
CoreZT(S_arr, sigma_arr, T_arr, safe_kappa) ==
    [i \in 1..Len(S_arr) |->
        FDiv(FMul(FMul(FSquare(S_arr[i]), sigma_arr[i]), T_arr[i]), safe_kappa[i])]

\* An uncertainty array: the argument converted, or zeros_like the observable.
ErrArray(err, like) ==
    IF err.given THEN ToArray(err.data) ELSE Zeros(Len(like))

\* compute_zt: (zT, zT_err), or ValueError on a shape mismatch of the four
\* observables or on operands numpy cannot broadcast.
ComputeZt(a) ==
    LET S_arr == ToArray(a.S)
        sigma_arr == ToArray(a.sigma)
        T_arr == ToArray(a.T)
        kappa_arr == ToArray(a.kappa)
    IN  IF ~SameShape(S_arr, sigma_arr, T_arr, kappa_arr)
        THEN [raised |-> "ValueError", zT |-> <<>>, zT_err |-> <<>>]
        ELSE
        LET n == Len(S_arr)
            safe_kappa == SafeKappa(kappa_arr)
            zT == CoreZT(S_arr, sigma_arr, T_arr, safe_kappa)
            err_S_arr == ErrArray(a.err_S, S_arr)
            err_sig_arr == ErrArray(a.err_sigma, sigma_arr)
            err_T_arr == ErrArray(a.err_T, T_arr)
            err_kap_arr == ErrArray(a.err_kappa, kappa_arr)
            dzT_dS == [i \in 1..n |->
                FDiv(FMul(FMul(FMul(F(2), S_arr[i]), sigma_arr[i]), T_arr[i]),
                     safe_kappa[i])]
            dzT_dsigma == [i \in 1..n |->
                FDiv(FMul(FSquare(S_arr[i]), T_arr[i]), safe_kappa[i])]
            dzT_dT == [i \in 1..n |->
                FDiv(FMul(FSquare(S_arr[i]), sigma_arr[i]), safe_kappa[i])]
            dzT_dkappa == [i \in 1..n |->
                FDiv(FNeg(FMul(FMul(FSquare(S_arr[i]), sigma_arr[i]), T_arr[i])),
                     FSquare(safe_kappa[i]))]
            \* shapes of the four products and of their left-to-right sum
            s1 == BroadcastShape(n, Len(err_S_arr))
            s2 == BroadcastShape(n, Len(err_sig_arr))
            s3 == BroadcastShape(n, Len(err_T_arr))
            s4 == BroadcastShape(n, Len(err_kap_arr))
            shape == BroadcastShape(BroadcastShape(BroadcastShape(s1, s2), s3), s4)
        IN  IF shape = -1
            THEN [raised |-> "ValueError", zT |-> <<>>, zT_err |-> <<>>]
            ELSE
            LET zT_var == [i \in 1..shape |->
                    FAdd(FAdd(FAdd(
                        FSquare(FMul(At(dzT_dS, i), At(err_S_arr, i))),
                        FSquare(FMul(At(dzT_dsigma, i), At(err_sig_arr, i)))),
                        FSquare(FMul(At(dzT_dT, i), At(err_T_arr, i)))),
                        FSquare(FMul(At(dzT_dkappa, i), At(err_kap_arr, i))))]
                zT_err == [i \in 1..shape |-> FSqrt(zT_var[i])]
            IN  [raised |-> "none", zT |-> zT, zT_err |-> zT_err]

\* np.greater(x, 0.0, where=~np.isnan(x)) without out=: the positions the
\* mask excludes are left uninitialised, so they hold whatever g gives.
MaskedGreater0(arr, g) ==
    [i \in 1..Len(arr) |-> IF IsNaN(arr[i]) THEN g[i] ELSE FGreater0(arr[i])]

MaskedGreaterEqual0(arr, g) ==
    [i \in 1..Len(arr) |-> IF IsNaN(arr[i]) THEN g[i] ELSE FGreaterEqual0(arr[i])]

\* The positions a NaN mask excludes, and every content they may hold.
NaNIdx(arr) == {i \in 1..Len(arr) : IsNaN(arr[i])}
Uninitialised(arr) == [NaNIdx(arr) -> BOOLEAN]

\* Intersection of all physically admissible spaces.
IsValidNoNaNTerm(valid_T, valid_sigma, valid_kappa, valid_zT, zT_arr) ==
    [i \in 1..Len(zT_arr) |->
        valid_T[i] /\ valid_sigma[i] /\ valid_kappa[i] /\ valid_zT[i]]

IsValid(valid_T, valid_sigma, valid_kappa, valid_zT, zT_arr) ==
    [i \in 1..Len(zT_arr) |->
        valid_T[i] /\ valid_sigma[i] /\ valid_kappa[i] /\ valid_zT[i]
        /\ ~IsNaN(zT_arr[i])]

\* int(np.sum(~is_valid))
ViolationsFirstOnly(is_valid) ==
    IF \E i \in 1..Len(is_valid) : ~is_valid[i] THEN 1 ELSE 0

Violations(is_valid) == Cardinality({i \in 1..Len(is_valid) : ~is_valid[i]})

\* validate: g holds the contents of the uninitialised mask positions.
Validate(a, strict, g) ==
    LET T_arr == ToArray(a.T)
        S_arr == ToArray(a.S)
        sigma_arr == ToArray(a.sigma)
        kappa_arr == ToArray(a.kappa)
        r == ComputeZt([a EXCEPT !.S = Array(S_arr), !.sigma = Array(sigma_arr),
                                 !.T = Array(T_arr), !.kappa = Array(kappa_arr)])
    IN  IF r.raised # "none"
        THEN Outcome("validate", strict, r.raised, 0,
                     <<>>, <<>>, <<>>, <<>>, <<>>, <<>>, <<>>)
        ELSE
        LET valid_T == MaskedGreater0(T_arr, g.T)
            valid_sigma == MaskedGreater0(sigma_arr, g.sigma)
            valid_kappa == MaskedGreater0(kappa_arr, g.kappa)
            valid_zT == MaskedGreaterEqual0(r.zT, g.zT)
            is_valid == IsValid(valid_T, valid_sigma, valid_kappa, valid_zT, r.zT)
        IN  IF strict /\ ~(\A i \in 1..Len(is_valid) : is_valid[i])
            THEN Outcome("validate", strict, "PhysicalConstraintError",
                         Violations(is_valid),
                         <<>>, <<>>, <<>>, <<>>, <<>>, <<>>, <<>>)
            ELSE Outcome("validate", strict, "none", 0,
                         T_arr, S_arr, sigma_arr, kappa_arr,
                         r.zT, r.zT_err, is_valid)

\* Every content of the four uninitialised masks of a validate call.
Garbage(a) ==
    LET r == ComputeZt(a)
    IN  [T : Uninitialised(ToArray(a.T)), sigma : Uninitialised(ToArray(a.sigma)),
         kappa : Uninitialised(ToArray(a.kappa)), zT : Uninitialised(r.zT)]

\* ---- the measurements the validator is exercised on ----

GoodRow == [T |-> F(1), S |-> F(1), sigma |-> F(1), kappa |-> F(2)]
OtherGoodRow == [T |-> F(2), S |-> F(1), sigma |-> F(1), kappa |-> F(1)]

Rows ==
    {GoodRow, OtherGoodRow, [GoodRow EXCEPT !.T = PInf, !.S = F(0)]}
    \cup {[GoodRow EXCEPT !.T = v] : v \in {NaN, F(-1), F(0), PInf}}
    \cup {[GoodRow EXCEPT !.S = v] : v \in {NaN, F(0)}}
    \cup {[GoodRow EXCEPT !.sigma = v] : v \in {NaN, F(-1), F(0)}}
    \cup {[GoodRow EXCEPT !.kappa = v] : v \in {NaN, F(-1), F(0)}}

ErrVals == {F(0), F(1)}

\* An uncertainty argument: a scalar, or an array of any length up to MaxLen.
ErrData ==
    {Scalar(e) : e \in ErrVals}
    \cup {Array([i \in 1..k |-> e]) : k \in 0..MaxLen, e \in ErrVals}

Column(rows, f) == [i \in 1..Len(rows) |-> rows[i][f]]
DropLast(s) == IF Len(s) = 0 THEN s ELSE SubSeq(s, 1, Len(s) - 1)

\* The rows the shape and uncertainty variants of a call are built from.
ShapeRows == {GoodRow, OtherGoodRow, [GoodRow EXCEPT !.kappa = F(0)]}

RowSeqs(R) == UNION {[1..n -> R] : n \in 0..MaxLen}

\* A call: the four observables of the rows, with one of them a row short
\* (short), and the uncertainty of S (errS) and of the other three (errRest).
ArgsOf(rows, short, errS, errRest) ==
    [S |-> Array(IF short = "S" THEN DropLast(Column(rows, "S")) ELSE Column(rows, "S")),
     sigma |-> Array(IF short = "sigma" THEN DropLast(Column(rows, "sigma"))
                     ELSE Column(rows, "sigma")),
     T |-> Array(IF short = "T" THEN DropLast(Column(rows, "T")) ELSE Column(rows, "T")),
     kappa |-> Array(IF short = "kappa" THEN DropLast(Column(rows, "kappa"))
                     ELSE Column(rows, "kappa")),
     err_S |-> errS, err_sigma |-> errRest, err_T |-> errRest, err_kappa |-> errRest]

\* The calls: any rows, all of one length and no uncertainties; or a few
\* rows with one observable a row short, or with uncertainties given for S
\* alone or for all four, as a scalar or as an array of any length.
ValidatorArgs ==
    {ArgsOf(rows, "none", None, None) : rows \in RowSeqs(Rows)}
    \cup UNION {
        {ArgsOf(rows, short, None, None) : short \in {"S", "sigma", "T", "kappa"}}
        \cup {ArgsOf(rows, "none", Some(e), None) : e \in ErrData}
        \cup {ArgsOf(rows, "none", Some(e), Some(e)) : e \in ErrData}
        : rows \in RowSeqs(ShapeRows)}

\* ------------------------------------------------------------------------
\* QualityVector and QualityScorer (pipeline/scoring.py)
\*
\* Quality components are 0 or a power of two 2^-m, so that a power q^w is
\* 2^(-m*w) and q*log(q) is -m*q*ln(2): both are kept exactly, as records
\*   [k |-> "pow2", n, d]           the value 2^(n/d), n/d not an integer
\*   [k |-> "a-c*ln2", a, c]        the value a - c*ln(2)
\*   [k |-> "a-g*sqrt(v)", a, g, v] the value a - g*sqrt(v), v not a square
\* ------------------------------------------------------------------------

\* The number of quality dimensions, and of weights.
NComponents == 6

RECURSIVE Log2(_)
Log2(d) == IF d <= 1 THEN 0 ELSE 1 + Log2(d \div 2)

RECURSIVE TwoTo(_)
TwoTo(e) == IF e <= 0 THEN 1 ELSE 2 * TwoTo(e - 1)

\* 2^e for a rational exponent e.
Pow2(e) ==
    IF e.d = 1
    THEN (IF e.n >= 0 THEN F(TwoTo(e.n)) ELSE Rat(1, TwoTo(-e.n)))
    ELSE [k |-> "pow2", n |-> e.n, d |-> e.d]

\* np.clip(x, 0.0, 1.0) of a rational, infinite or NaN x.
FClip(x) ==
    IF x.k = "nan" THEN NaN
    ELSE IF FLt(x, F(0)) THEN F(0)
    ELSE IF FGt(x, F(1)) THEN F(1)
    ELSE x

\* A result: the value returned, or the QualityScoreError raised.
Returned(v) == [raised |-> "none", msg |-> "", value |-> v]
Raised(msg) == [raised |-> "QualityScoreError", msg |-> msg, value |-> NaN]

\* QualityVector(...): a frozen dataclass without __post_init__; the six
\* components are stored as given.
QualityVector(c) == [exists |-> TRUE, q |-> c]
NoVector == [exists |-> FALSE, q |-> <<>>]

\* QualityVector.to_numpy: the components, or QualityScoreError on a NaN or
\* on a component outside [0, 1].
ToNumpy(qv) ==
    IF \E i \in 1..Len(qv.q) : IsNaN(qv.q[i])
    THEN [raised |-> "QualityScoreError", msg |-> "QUAL-SCORE-01", arr |-> <<>>]
    ELSE IF \E i \in 1..Len(qv.q) : FLt(qv.q[i], F(0)) \/ FGt(qv.q[i], F(1))
    THEN [raised |-> "QualityScoreError", msg |-> "QUAL-SCORE-02", arr |-> <<>>]
    ELSE [raised |-> "none", msg |-> "", arr |-> qv.q]

DEFAULT_WEIGHTS == <<Rat(1, 4), Rat(1, 4), Rat(1, 5), Rat(3, 20), Rat(1, 10), Rat(1, 20)>>

\* np.isclose(a, b, atol=1e-6), with numpy's default rtol=1e-5:
\* |a - b| <= atol + rtol * |b|.
ATol == Rat(1, 1000000)
RTol == Rat(1, 100000)

IsClose(a, b) ==
    IF a.k = "nan" \/ b.k = "nan" THEN FALSE
    ELSE IF a.k = "inf" \/ b.k = "inf" THEN a = b
    ELSE FLe(FAbs(FSub(a, b)), FAdd(ATol, FMul(RTol, FAbs(b))))

NoScorer == [exists |-> FALSE, weights |-> <<>>]

\* QualityScorer.__init__: the instance, or the QualityScoreError raised.
QualityScorerInit(weights) ==
    LET w == IF weights.given THEN weights.data ELSE DEFAULT_WEIGHTS
    IN  IF Len(w) # NComponents
        THEN [raised |-> "QualityScoreError", msg |-> "QUAL-SCORE-02", obj |-> NoScorer]
        ELSE IF ~IsClose(FSum(w), F(1))
        THEN [raised |-> "QualityScoreError", msg |-> "QUAL-SCORE-03", obj |-> NoScorer]
        ELSE [raised |-> "none", msg |-> "", obj |-> [exists |-> TRUE, weights |-> w]]

\* np.dot of two vectors of one length.
Dot(w, q) == FSum([i \in 1..Len(w) |-> FMul(w[i], q[i])])

\* score_linear
ScoreLinear(self, gate, q_vector) ==
    IF ~gate THEN Returned(F(0))
    ELSE LET t == ToNumpy(q_vector)
         IN  IF t.raised # "none" THEN Raised(t.msg)
             ELSE Returned(Dot(self.weights, t.arr))

\* np.power(q, w) for q = 0 or q = 2^-m in [0, 1] and a finite w:
\* 0^w is 0 for w > 0, 1 for w = 0 and inf for w < 0; (2^-m)^w = 2^(-m*w).
PowerZeroAsOne(q, w) ==
    IF FIsZero(q) THEN [z |-> "pow", e |-> F(0)]
    ELSE [z |-> "pow", e |-> FMul(F(-Log2(q.d)), w)]

Power(q, w) ==
    IF FIsZero(q)
    THEN IF w.n > 0 THEN [z |-> "zero", e |-> F(0)]
         ELSE IF w.n = 0 THEN [z |-> "pow", e |-> F(0)]
         ELSE [z |-> "inf", e |-> F(0)]
    ELSE [z |-> "pow", e |-> FMul(F(-Log2(q.d)), w)]

\* np.prod of the powers: 0 * inf is NaN, which every later factor keeps.
Prod(p) ==
    LET has0 == \E i \in 1..Len(p) : p[i].z = "zero"
        hasInf == \E i \in 1..Len(p) : p[i].z = "inf"
    IN  IF has0 /\ hasInf THEN NaN
        ELSE IF has0 THEN F(0)
        ELSE IF hasInf THEN PInf
        ELSE Pow2(FSum([i \in 1..Len(p) |-> p[i].e]))

\* score_multiplicative
ScoreMultiplicative(self, gate, q_vector) ==
    IF ~gate THEN Returned(F(0))
    ELSE LET t == ToNumpy(q_vector)
         IN  IF t.raised # "none" THEN Raised(t.msg)
             ELSE Returned(Prod([i \in 1..Len(t.arr) |->
                                    Power(t.arr[i], self.weights[i])]))

\* ln(2) lies strictly between these two.
Ln2Lo == Rat(693, 1000)
Ln2Hi == Rat(694, 1000)

\* np.clip(a - c*ln(2), 0.0, 1.0) for rationals a and c # 0.
ClipLn2(a, c) ==
    LET x == FMul(c, Ln2Lo)
        y == FMul(c, Ln2Hi)
        lo == IF FLt(x, y) THEN x ELSE y
        hi == IF FLt(x, y) THEN y ELSE x
    IN  IF FLe(a, lo) THEN F(0)
        ELSE IF FGe(FSub(a, F(1)), hi) THEN F(1)
        ELSE IF FGe(a, hi) /\ FLe(FSub(a, F(1)), lo)
        THEN [k |-> "a-c*ln2", a |-> a, c |-> c]
        ELSE [k |-> "undecided", a |-> a, c |-> c]

\* The entropy -sum(where(q > 0, q*log(q), 0.0)) in units of ln(2):
\* q = 2^-m contributes m*q, q = 0 contributes 0.
EntropyLn2(q) ==
    FSum([i \in 1..Len(q) |->
            IF FGt(q[i], F(0)) THEN FMul(F(Log2(q[i].d)), q[i]) ELSE F(0)])

\* score_entropy_regularized as it would be with to_numpy ahead of the gate.
ScoreEntropyRegularizedCheckFirst(self, gate, q_vector, lambda_reg) ==
    LET t == ToNumpy(q_vector)
    IN  IF t.raised # "none" THEN Raised(t.msg)
        ELSE IF ~gate THEN Returned(F(0))
        ELSE Returned(FClip(Dot(self.weights, t.arr)))

\* score_entropy_regularized
ScoreEntropyRegularized(self, gate, q_vector, lambda_reg) ==
    IF ~gate THEN Returned(F(0))
    ELSE LET t == ToNumpy(q_vector)
         IN  IF t.raised # "none" THEN Raised(t.msg)
             ELSE
             LET s_base == Dot(self.weights, t.arr)
                 \* lambda_reg * entropy, in units of ln(2)
                 c == FMul(lambda_reg, EntropyLn2(t.arr))
             IN  IF c.k # "fin" \/ c.n = 0
                 THEN Returned(FClip(FSub(s_base, c)))
                 ELSE Returned(ClipLn2(s_base, c))

\* The sign of x - g*sqrt(v) for rationals x, g and v > 0.
SignMinusRoot(x, g, v) ==
    LET sx == Sign(x)
        sg == Sign(g)
        t == Cmp(FSquare(x), FMul(FSquare(g), v))
    IN  IF sx > sg THEN 1
        ELSE IF sx < sg THEN -1
        ELSE IF sx = 0 THEN 0
        ELSE IF sx > 0 THEN t ELSE -t

\* np.clip(a - g*sqrt(v), 0.0, 1.0) for a rational a and any g.
ClipRoot(a, g, v) ==
    LET r == FSqrt(v)
    IN  IF r.k # "sqrt" THEN FClip(FSub(a, FMul(g, r)))
        ELSE IF g.k # "fin" \/ g.n = 0 THEN FClip(FSub(a, FMul(g, F(1))))
        ELSE IF SignMinusRoot(a, g, v) <= 0 THEN F(0)
        ELSE IF SignMinusRoot(FSub(a, F(1)), g, v) >= 0 THEN F(1)
        ELSE [k |-> "a-g*sqrt(v)", a |-> a, g |-> g, v |-> v]

\* score_risk_adjusted
ScoreRiskAdjusted(self, gate, q_mu, q_sigma, gamma) ==
    IF ~gate THEN Returned(F(0))
    ELSE LET m == ToNumpy(q_mu)
             s == ToNumpy(q_sigma)
         IN  IF m.raised # "none" THEN Raised(m.msg)
             ELSE IF s.raised # "none" THEN Raised(s.msg)
             ELSE
             LET expected_s == Dot(self.weights, m.arr)
                 var_s == Dot([i \in 1..Len(self.weights) |-> FSquare(self.weights[i])],
                              [i \in 1..Len(s.arr) |-> FSquare(s.arr[i])])
             IN  IF FLt(var_s, F(0)) THEN Raised("QUAL-SCORE-05")
                 ELSE Returned(ClipRoot(expected_s, gamma, var_s))

\* classify as it would be with strict comparisons at the thresholds.
ClassifyStrictlyAbove(score) ==
    IF FGt(score, Rat(90, 100)) THEN "Class A"
    ELSE IF FGt(score, Rat(80, 100)) THEN "Class B"
    ELSE IF FGt(score, Rat(65, 100)) THEN "Class C"
    ELSE IF FGt(score, Rat(50, 100)) THEN "Class D"
    ELSE "Reject"

\* QualityScorer.classify
Classify(score) ==
    IF FGe(score, Rat(90, 100)) THEN "Class A"
    ELSE IF FGe(score, Rat(80, 100)) THEN "Class B"
    ELSE IF FGe(score, Rat(65, 100)) THEN "Class C"
    ELSE IF FGe(score, Rat(50, 100)) THEN "Class D"
    ELSE "Reject"

\* pareto_dominates as it would be without the strict component.
ParetoDominatesWeakly(q1, q2) ==
    LET v1 == ToNumpy(q1)
        v2 == ToNumpy(q2)
    IN  IF v1.raised # "none" THEN [raised |-> v1.raised, msg |-> v1.msg, flag |-> FALSE]
        ELSE IF v2.raised # "none" THEN [raised |-> v2.raised, msg |-> v2.msg, flag |-> FALSE]
        ELSE [raised |-> "none", msg |-> "",
              flag |-> \A i \in 1..Len(v1.arr) : FGe(v1.arr[i], v2.arr[i])]

\* QualityScorer.pareto_dominates: the boolean, or the error of to_numpy.
ParetoDominates(q1, q2) ==
    LET v1 == ToNumpy(q1)
        v2 == ToNumpy(q2)
    IN  IF v1.raised # "none" THEN [raised |-> v1.raised, msg |-> v1.msg, flag |-> FALSE]
        ELSE IF v2.raised # "none" THEN [raised |-> v2.raised, msg |-> v2.msg, flag |-> FALSE]
        ELSE
        LET strictly_greater_any == \E i \in 1..Len(v1.arr) : FGt(v1.arr[i], v2.arr[i])
            greater_equal_all == \A i \in 1..Len(v1.arr) : FGe(v1.arr[i], v2.arr[i])
        IN  [raised |-> "none", msg |-> "",
             flag |-> greater_equal_all /\ strictly_greater_any]

\* ---- the arguments the scoring objects are exercised on ----

Six(v) == [i \in 1..NComponents |-> v]
With(s, i, v) == [s EXCEPT ![i] = v]
Mixed == <<F(1), Rat(1, 2), Rat(1, 4), F(1), Rat(1, 2), F(0)>>

\* Weight vectors: the default; valid ones with zero weights; wrong lengths;
\* sums off 1.0 by 5e-7, 5e-6, 1e-5, 2e-5 and 0.05; a negative weight; a NaN.
WeightArgs ==
    {NoWeights}
    \cup {Some(w) : w \in {
        <<Rat(1, 2), Rat(1, 2), F(0), F(0), F(0), F(0)>>,
        With(Six(F(0)), 1, F(1)),
        With(Six(F(0)), 6, F(1)),
        <<Rat(1, 5), Rat(1, 5), Rat(1, 5), Rat(1, 5), Rat(1, 5)>>,
        DEFAULT_WEIGHTS \o <<F(0)>>,
        With(DEFAULT_WEIGHTS, 6, F(0)),
        With(DEFAULT_WEIGHTS, 1, Rat(2500005, 10000000)),
        With(DEFAULT_WEIGHTS, 1, Rat(2499995, 10000000)),
        With(DEFAULT_WEIGHTS, 1, Rat(250005, 1000000)),
        With(DEFAULT_WEIGHTS, 1, Rat(24999, 100000)),
        With(DEFAULT_WEIGHTS, 1, Rat(25002, 100000)),
        <<Rat(3, 2), Rat(-1, 2), F(0), F(0), F(0), F(0)>>,
        <<NaN, F(1), F(0), F(0), F(0), F(0)>>}}

\* Component tuples: in range (with and without zeros) and out of range.
Components1 ==
    {Six(F(1)), Six(Rat(1, 2)), Six(F(0)), Mixed,
     With(Six(F(1)), 1, F(0)), With(Six(F(1)), 2, F(0)),
     With(Six(Rat(1, 2)), 6, F(0)),
     With(Six(F(1)), 1, NaN), With(Six(F(1)), 3, F(2)),
     With(Six(F(1)), 6, Rat(-1, 2)), With(Six(F(1)), 2, PInf)}

Components2 ==
    {Six(Rat(1, 2)),
     <<Rat(1, 2), F(1), Rat(1, 4), F(1), Rat(1, 2), F(0)>>,
     With(Six(F(1)), 1, NaN)}

Lambdas == {Rat(1, 10), F(-1), NaN}
Gammas == {F(1), F(0), F(-1), NaN}
ClassifyScores ==
    {Rat(49, 100), Rat(1, 2), Rat(65, 100), Rat(79, 100), Rat(9, 10), F(1), NaN}

\* ------------------------------------------------------------------------
\* CredibilityScorer.calculate_credibility
\* ------------------------------------------------------------------------

\* The factors of the credibility product are kept by sign s and size m:
\* "zero", "unit" (0 < |x| <= 1), "big" (1 < |x| < inf), "any" (a finite
\* product of unknown size), "inf" and "nan".
Factor(s, m) == [s |-> s, m |-> m]

\* The factor a float is.
FactorOf(x) ==
    IF x.k = "nan" THEN Factor(0, "nan")
    ELSE IF x.k = "inf" THEN Factor(x.n, "inf")
    ELSE IF x.n = 0 THEN Factor(0, "zero")
    ELSE IF FLe(FAbs(x), F(1)) THEN Factor(Sign(x), "unit")
    ELSE Factor(Sign(x), "big")

\* float multiplication on factors: 0 * inf is NaN.
FactorMul(a, b) ==
    IF a.m = "nan" \/ b.m = "nan" THEN Factor(0, "nan")
    ELSE IF {a.m, b.m} = {"zero", "inf"} THEN Factor(0, "nan")
    ELSE IF a.m = "zero" \/ b.m = "zero" THEN Factor(0, "zero")
    ELSE IF a.m = "inf" \/ b.m = "inf" THEN Factor(a.s * b.s, "inf")
    ELSE IF a.m = "unit" /\ b.m = "unit" THEN Factor(a.s * b.s, "unit")
    ELSE Factor(a.s * b.s, "any")

RECURSIVE FactorProd(_)
FactorProd(fs) ==
    IF Len(fs) = 1 THEN fs[1]
    ELSE FactorMul(FactorProd(SubSeq(fs, 1, Len(fs) - 1)), fs[Len(fs)])

\* math.exp overflows (OverflowError) above about 709.78 and underflows to
\* 0.0 below about -745.13.
ExpOverflowsAbove == F(709)
ExpUnderflowsBelow == F(-746)

\* math.exp(x): the factor, or the OverflowError raised.
Exp(x) ==
    IF x.k = "nan" THEN [raised |-> "none", f |-> Factor(0, "nan")]
    ELSE IF x.k = "inf"
    THEN [raised |-> "none",
          f |-> IF x.n > 0 THEN Factor(1, "inf") ELSE Factor(0, "zero")]
    ELSE IF FGt(x, ExpOverflowsAbove)
    THEN [raised |-> "OverflowError", f |-> Factor(0, "nan")]
    ELSE IF FLt(x, ExpUnderflowsBelow) THEN [raised |-> "none", f |-> Factor(0, "zero")]
    ELSE IF x.n <= 0 THEN [raised |-> "none", f |-> Factor(1, "unit")]
    ELSE [raised |-> "none", f |-> Factor(1, "big")]

\* max(0.0, d) of Python: d only if d > 0.0, so 0.0 for a NaN.
MaxZero(d) == IF FGt(d, F(0)) THEN d ELSE F(0)

\* np.clip(k_score, 0.0, 1.0) of a factor: NaN, 0.0, 1.0 or a number
\* strictly between.
ClipFactor(f) ==
    IF f.m = "nan" THEN NaN
    ELSE IF f.m = "zero" \/ f.s < 0 THEN F(0)
    ELSE IF f.m = "inf" THEN F(1)
    ELSE [k |-> "in(0,1]", n |-> 0, d |-> 1]

CredResult(raised, msg, value) == [raised |-> raised, msg |-> msg, value |-> value]

\* calculate_credibility
CalculateCredibility(a) ==
    IF ~(FGe(a.w_source, F(0)) /\ FLe(a.w_source, F(1)))
    THEN CredResult("CredibilityScoreError", "QUAL-CRED-01", NaN)
    ELSE IF a.w_unc \notin {F(0), Rat(1, 2), F(1)}
    THEN CredResult("CredibilityScoreError", "QUAL-CRED-03", NaN)
    ELSE IF a.n < 0
    THEN CredResult("CredibilityScoreError", "QUAL-CRED-05", NaN)
    ELSE
    LET w_rep == IF a.n_rep >= 1 THEN Factor(1, "unit") ELSE Factor(0, "zero")
        w_phys == IF FGt(a.delta_phys, F(0))
                  THEN Exp(FMul(FNeg(a.alpha), a.delta_phys))
                  ELSE [raised |-> "none", f |-> Factor(1, "unit")]
        denom == FAdd(F(a.n), a.n_0)
        w_model == Exp(FMul(FNeg(a.beta), a.e_cv))
        w_time == Exp(FMul(FNeg(a.lambda_time),
                           MaxZero(FSub(a.t_current, a.t_pub))))
    IN  IF w_phys.raised # "none" THEN CredResult(w_phys.raised, "", NaN)
        ELSE IF FIsZero(denom) THEN CredResult("ZeroDivisionError", "", NaN)
        ELSE IF w_model.raised # "none" THEN CredResult(w_model.raised, "", NaN)
        ELSE IF w_time.raised # "none" THEN CredResult(w_time.raised, "", NaN)
        ELSE
        LET w_stat == FactorOf(FDiv(F(a.n), denom))
            k_score == FactorProd(<<FactorOf(a.w_source), w_rep, FactorOf(a.w_unc),
                                    w_phys.f, w_stat, w_model.f, w_time.f>>)
        IN  CredResult("none", "", ClipFactor(k_score))

\* ---- the arguments calculate_credibility is exercised on ----

CredibilityArgs ==
    [w_source : {F(0), Rat(1, 2), F(1), F(2), NaN},
     n_rep : {0, 2},
     w_unc : {F(0), Rat(1, 2), F(1), Rat(1, 4)},
     delta_phys : {F(0), F(1)},
     n : {-1, 0, 5},
     e_cv : {F(0), Rat(1, 2), F(-1000)},
     t_current : {F(2020)},
     t_pub : {F(2010), F(2030)},
     alpha : {F(1)},
     n_0 : {F(10), F(0), F(-5)},
     beta : {F(1)},
     lambda_time : {Rat(1, 20)}]

\* ------------------------------------------------------------------------
\* GapDetector and MaterialRanker
\* ------------------------------------------------------------------------

MaxRows == 3

\* material_id values: NULL (Python None) and the identifiers 1, 2.
Null == 0
MaterialIds == {1, 2, 3}

\* A slice boundary (start_idx, end_idx), with Python's 0-based indices.
Bound(start_idx, end_idx) == <<start_idx, end_idx>>

\* The loop of GapDetector._extract_and_structure_data over rows[i..]
\* (row i is Python's index i - 1); current_mat starts as None.
RECURSIVE GapLoop(_, _, _, _, _, _)
GapLoop(rows, i, current_mat, start_idx, bounds, material_ids) ==
    IF i > Len(rows)
    THEN IF current_mat # Null
         THEN [bounds |-> Append(bounds, Bound(start_idx, Len(rows))),
               material_ids |-> Append(material_ids, current_mat)]
         ELSE [bounds |-> bounds, material_ids |-> material_ids]
    ELSE IF rows[i] # current_mat
    THEN IF current_mat # Null
         THEN GapLoop(rows, i + 1, rows[i], i - 1,
                      Append(bounds, Bound(start_idx, i - 1)),
                      Append(material_ids, current_mat))
         ELSE GapLoop(rows, i + 1, rows[i], i - 1, bounds, material_ids)
    ELSE GapLoop(rows, i + 1, current_mat, start_idx, bounds, material_ids)

\* GapDetector._extract_and_structure_data on the rows fetched (not empty).
ExtractAndStructureData(rows) == GapLoop(rows, 1, Null, 0, <<>>, <<>>)

\* The loop of MaterialRanker._prepare_c_contiguous_tensors;
\* current_mat_id starts as rows[0][0].
RECURSIVE PrepareLoop(_, _, _, _, _, _)
PrepareLoop(rows, i, current_mat_id, start_idx, material_bounds, material_ids) ==
    IF i > Len(rows)
    THEN [bounds |-> Append(material_bounds, Bound(start_idx, Len(rows))),
          material_ids |-> Append(material_ids, current_mat_id)]
    ELSE IF rows[i] # current_mat_id
    THEN PrepareLoop(rows, i + 1, rows[i], i - 1,
                     Append(material_bounds, Bound(start_idx, i - 1)),
                     Append(material_ids, current_mat_id))
    ELSE PrepareLoop(rows, i + 1, current_mat_id, start_idx,
                     material_bounds, material_ids)

\* MaterialRanker._prepare_c_contiguous_tensors
PrepareCContiguousTensors(rows) ==
    IF rows = <<>> THEN [bounds |-> <<>>, material_ids |-> <<>>]
    ELSE PrepareLoop(rows, 1, rows[1], 0, <<>>, <<>>)

\* zip(material_ids, ffi_results): one ranked_gaps entry per pair.
GapEntry(mat_id, result) ==
    [material_id |-> mat_id, entropy |-> result.entropy,
     kl_divergence |-> result.kl_divergence, gap_score |-> result.total_score]

\* The insertion of a sort that would put the lowest gap_score first.
RECURSIVE InsertAscending(_, _)
InsertAscending(sorted, x) ==
    IF sorted = <<>> THEN <<x>>
    ELSE IF Head(sorted).gap_score <= x.gap_score
    THEN <<Head(sorted)>> \o InsertAscending(Tail(sorted), x)
    ELSE <<x>> \o sorted

\* list.sort(key=gap_score, reverse=True): a stable sort, so an entry goes
\* behind the entries of equal gap_score that precede it.
RECURSIVE InsertDescending(_, _)
InsertDescending(sorted, x) ==
    IF sorted = <<>> THEN <<x>>
    ELSE IF Head(sorted).gap_score >= x.gap_score
    THEN <<Head(sorted)>> \o InsertDescending(Tail(sorted), x)
    ELSE <<x>> \o sorted

RECURSIVE SortDescending(_)
SortDescending(entries) ==
    IF entries = <<>> THEN <<>>
    ELSE InsertDescending(SortDescending(SubSeq(entries, 1, Len(entries) - 1)),
                          entries[Len(entries)])

\* A pipeline call: where it stands (pc), what it raised or returned (the
\* ranked list of detect_and_rank_gaps, the count of update_all_ranks), the
\* partition it built, the backend's answer, the external calls it made in
\* order (log) and what it handed to the bulk writer.
NoRun ==
    [op |-> "none", pc |-> "done", raised |-> "none", ranked |-> <<>>, count |-> -1,
     bounds |-> <<>>, material_ids |-> <<>>, results |-> <<>>, log |-> <<>>,
     pg_data |-> <<>>, graph_data |-> <<>>]

\* The result object the gap backend returns for the answer v.
GapResultOf(v) == [entropy |-> 10 + v, kl_divergence |-> 20 + v, total_score |-> v]

\* GapDetector.detect_and_rank_gaps, given what the database does (db) and
\* what the backend does (ffi) when called.
DetectAndRankGaps(rows, db, ffi) ==
    LET run == [NoRun EXCEPT !.op = "detect_and_rank_gaps", !.log = <<"query">>]
    IN  IF db = "SQLAlchemyError"
        THEN [run EXCEPT !.raised = "DatabaseExtractionError"]
        ELSE IF rows = <<>>
        THEN [run EXCEPT !.raised = "DatabaseExtractionError"]
        ELSE
        LET e == ExtractAndStructureData(rows)
            called == [run EXCEPT !.bounds = e.bounds,
                                  !.material_ids = e.material_ids,
                                  !.log = <<"query", "backend">>]
            ffi_results == [i \in 1..Len(ffi.results) |-> GapResultOf(ffi.results[i])]
        IN  IF ffi.raises
            THEN [called EXCEPT !.raised = "FFISynchronizationError"]
            ELSE IF Len(ffi_results) # Len(e.material_ids)
            THEN [called EXCEPT !.raised = "FFISynchronizationError",
                                !.results = ffi_results]
            ELSE [called EXCEPT
                    !.results = ffi_results,
                    !.ranked = SortDescending([i \in 1..Len(e.material_ids) |->
                                    GapEntry(e.material_ids[i], ffi_results[i])])]

\* update_all_ranks up to the backend call, as it would be without the
\* early return on an empty result.
UpdateAllRanksFetchNoEarlyReturn(rows, db) ==
    LET run == [NoRun EXCEPT !.op = "update_all_ranks", !.log = <<"query">>]
    IN  IF db = "Exception"
        THEN [run EXCEPT !.raised = "PipelineRankingError"]
        ELSE LET p == PrepareCContiguousTensors(rows)
             IN  [run EXCEPT !.pc = "backend", !.bounds = p.bounds,
                             !.material_ids = p.material_ids]

\* update_all_ranks up to the backend call: the query and the tensors.
UpdateAllRanksFetch(rows, db) ==
    LET run == [NoRun EXCEPT !.op = "update_all_ranks", !.log = <<"query">>]
    IN  IF db = "Exception"
        THEN [run EXCEPT !.raised = "PipelineRankingError"]
        ELSE IF rows = <<>>
        THEN [run EXCEPT !.count = 0]
        ELSE LET p == PrepareCContiguousTensors(rows)
             IN  [run EXCEPT !.pc = "backend", !.bounds = p.bounds,
                             !.material_ids = p.material_ids]

\* update_all_ranks at the backend call.
UpdateAllRanksBackend(run, ffi) ==
    IF ffi.raises
    THEN [run EXCEPT !.pc = "done", !.raised = "PipelineRankingError",
                     !.log = Append(run.log, "backend")]
    ELSE [run EXCEPT !.pc = "check", !.results = ffi.results,
                     !.log = Append(run.log, "backend")]

\* The end of update_all_ranks as it would be without the length check:
\* zip pairs the ids and the ranks up to the shorter list.
UpdateAllRanksWriteBackUnchecked(run, writer) ==
    LET n == IF Len(run.results) < Len(run.material_ids)
             THEN Len(run.results) ELSE Len(run.material_ids)
        written == [run EXCEPT
            !.pc = "done",
            !.pg_data = [i \in 1..n |-> <<run.results[i], run.material_ids[i]>>],
            !.graph_data = [i \in 1..n |-> [material_uuid |-> run.material_ids[i],
                                            rank |-> run.results[i]]],
            !.log = Append(run.log, "writer")]
    IN  IF writer = "Exception"
        THEN [written EXCEPT !.raised = "PipelineRankingError"]
        ELSE [written EXCEPT !.count = Len(run.material_ids)]

\* update_all_ranks from the length check to the end, given what the bulk
\* writer does (writer) when called.
UpdateAllRanksWriteBack(run, writer) ==
    IF Len(run.results) # Len(run.material_ids)
    THEN [run EXCEPT !.pc = "done", !.raised = "PipelineRankingError"]
    ELSE
    LET n == Len(run.material_ids)
        written == [run EXCEPT
            !.pc = "done",
            !.pg_data = [i \in 1..n |-> <<run.results[i], run.material_ids[i]>>],
            !.graph_data = [i \in 1..n |-> [material_uuid |-> run.material_ids[i],
                                            rank |-> run.results[i]]],
            !.log = Append(run.log, "writer")]
    IN  IF writer = "Exception"
        THEN [written EXCEPT !.raised = "PipelineRankingError"]
        ELSE [written EXCEPT !.count = n]

\* ---- the rows and backend answers the pipelines are exercised on ----

\* Rows as the queries return them: ordered by material_id, the NULL ids
\* first or last (the order depends on the database).
RECURSIVE Ascending(_)
Ascending(s) == Len(s) <= 1 \/ (s[1] <= s[2] /\ Ascending(Tail(s)))

KeySeqs == UNION {[1..n -> MaterialIds \cup {Null}] : n \in 0..MaxRows}

\* NULL counted above every id, for the order that puts it last.
NullLast(s) == [i \in 1..Len(s) |-> IF s[i] = Null THEN 1 + Cardinality(MaterialIds) ELSE s[i]]

OrderedRows == {s \in KeySeqs : Ascending(s) \/ Ascending(NullLast(s))}

\* What a backend returns per manifold (a rank, or the score of a gap
\* result), and its answers: an exception or a list of any length.
BackendValues == {1, 2}

FfiAnswers ==
    {[raises |-> TRUE, results |-> <<>>]}
    \cup {[raises |-> FALSE, results |-> r] :
            r \in UNION {[1..n -> BackendValues] : n \in 0..(MaxRows + 1)}}

PipelineEnvs == [rows : OrderedRows, ffi : FfiAnswers]

\* ------------------------------------------------------------------------
\* The acquisition target of the gap test: the bin minimising the KL gradient
\* ------------------------------------------------------------------------

MaxCount == 2

\* np.histogram(t_array, bins=num_bins, range=(t_min, t_max)): the 0-based
\* bin of a temperature; the last bin includes t_max, values outside the
\* range fall in no bin (-1).
BinOf(t, t_min, t_max, num_bins) ==
    IF t < t_min \/ t > t_max THEN -1
    ELSE IF t = t_max THEN num_bins - 1
    ELSE ((t - t_min) * num_bins) \div (t_max - t_min)

Histogram(t_array, t_min, t_max, num_bins) ==
    [b \in 1..num_bins |->
        Cardinality({i \in 1..Len(t_array) :
                        BinOf(t_array[i], t_min, t_max, num_bins) = b - 1})]

RECURSIVE SumInts(_)
SumInts(s) == IF s = <<>> THEN 0 ELSE Head(s) + SumInts(Tail(s))

\* eps = np.nextafter(0, 1), the smallest positive float, and its multiples
\* m * eps: positive and below every p_k / u_k of a non-empty bin.
EpsTimes(m) == [k |-> "eps", n |-> m, d |-> 1]

\* np.maximum(p_k, eps) / u_k with u_k = 1 / num_bins.
SafeRatio(p, num_bins) ==
    IF p.k = "nan" THEN NaN
    ELSE IF p.n = 0 THEN EpsTimes(num_bins)
    ELSE FMul(p, F(num_bins))

\* x < y for two such ratios (False when one is NaN).
RatioLess(x, y) ==
    IF x.k = "nan" \/ y.k = "nan" THEN FALSE
    ELSE IF x.k = "eps" /\ y.k = "eps" THEN x.n < y.n
    ELSE IF x.k = "eps" THEN TRUE
    ELSE IF y.k = "eps" THEN FALSE
    ELSE FLt(x, y)

\* np.log(x) / N as a gradient [of |-> x, N |-> N]; for N > 0 the order of
\* two gradients is the order of their arguments (log is increasing).
GradientLess(g, h) == RatioLess(g.of, h.of)

\* The index of the largest gradient.
ArgMax(gradients) ==
    IF \E i \in 1..Len(gradients) : gradients[i].of.k = "nan"
    THEN (CHOOSE i \in 1..Len(gradients) :
            /\ gradients[i].of.k = "nan"
            /\ \A j \in 1..(i - 1) : gradients[j].of.k # "nan") - 1
    ELSE (CHOOSE i \in 1..Len(gradients) :
            /\ \A j \in 1..Len(gradients) : ~GradientLess(gradients[i], gradients[j])
            /\ \A j \in 1..(i - 1) : GradientLess(gradients[j], gradients[i])) - 1

\* np.argmin: the 0-based index of the first minimum, or of the first NaN.
ArgMin(gradients) ==
    IF \E i \in 1..Len(gradients) : gradients[i].of.k = "nan"
    THEN (CHOOSE i \in 1..Len(gradients) :
            /\ gradients[i].of.k = "nan"
            /\ \A j \in 1..(i - 1) : gradients[j].of.k # "nan") - 1
    ELSE (CHOOSE i \in 1..Len(gradients) :
            /\ \A j \in 1..Len(gradients) : ~GradientLess(gradients[j], gradients[i])
            /\ \A j \in 1..(i - 1) : GradientLess(gradients[i], gradients[j])) - 1

\* The derivative assertion of the gap test: histogram, p_k, gradients and
\* their argmin.
OptimalAcquisitionBin(t_array, t_min, t_max, num_bins) ==
    LET hist == Histogram(t_array, t_min, t_max, num_bins)
        N == SumInts(hist)
        p_k == [b \in 1..num_bins |-> FDiv(F(hist[b]), F(N))]
        dkl_gradients == [b \in 1..num_bins |->
                            [of |-> SafeRatio(p_k[b], num_bins), N |-> N]]
    IN  [hist |-> hist, N |-> N, dkl_gradients |-> dkl_gradients,
         optimal_acquisition_bin |-> ArgMin(dkl_gradients)]

\* ---- the samples the acquisition target is computed on ----

\* The domain of the test, [300, 1000) in 7 bins of width 100, and two
\* shorter ones.
Domains ==
    {[t_min |-> 300, t_max |-> 1000, num_bins |-> 7],
     [t_min |-> 300, t_max |-> 600, num_bins |-> 3],
     [t_min |-> 300, t_max |-> 500, num_bins |-> 2]}

RECURSIVE Repeat(_, _)
Repeat(x, n) == IF n <= 0 THEN <<>> ELSE <<x>> \o Repeat(x, n - 1)

\* A sample with counts[b] measurements at the lower edge of bin b, from
\* bin b on.
RECURSIVE SampleFrom(_, _, _)
SampleFrom(dom, counts, b) ==
    IF b > Len(counts) THEN <<>>
    ELSE Repeat(dom.t_min + ((b - 1) * (dom.t_max - dom.t_min)) \div dom.num_bins,
                counts[b])
         \o SampleFrom(dom, counts, b + 1)

\* The samples: no, one or MaxCount measurements per bin, with or without
\* one more measurement at t_max itself.
GradientInputs ==
    UNION {{[dom |-> dom,
             t_array |-> SampleFrom(dom, counts, 1)
                            \o (IF atMax THEN <<dom.t_max>> ELSE <<>>)] :
                counts \in [1..dom.num_bins -> {0, 1, MaxCount}], atMax \in BOOLEAN}
           : dom \in Domains}

\* ------------------------------------------------------------------------
\* wrappers/rust_wrapper.py: the RustCore wrapper around the compiled backend
\* ------------------------------------------------------------------------

\* What a call into the compiled backend does: it returns, or raises an
\* exception of one of these types (PanicException derives from
\* BaseException, the others from Exception).
BackendOutcomes ==
    {"ok", "ValueError", "RuntimeError", "TypeError", "OverflowError",
     "PanicException"}

IsException(e) == e \in {"ValueError", "RuntimeError", "TypeError", "OverflowError"}

\* The number of arrays each wrapper prepares before the backend call.
PreparedArrays(method) ==
    CASE method = "compute_zt_from_csv" -> 0
      [] method = "validate_dimensions" -> 2
      [] method = "check_physics_consistency" -> 4
      [] method = "propagate_error" -> 8
      [] method = "compute_quality_score" -> 7

NoWrapperCall == [op |-> "none", raised |-> "none", backend |-> "not called"]

WrapperRaised(method, e, backend) == [op |-> method, raised |-> e, backend |-> backend]

\* _prepare_f64_array and _prepare_bool_array over the arguments of a call:
\* the first argument that cannot be cast raises RustCoreError (0: all cast).
PrepareArrays(method, uncastable) ==
    IF uncastable \in 1..PreparedArrays(method) THEN "RustCoreError" ELSE "none"

\* The try block of validate_dimensions, check_physics_consistency,
\* propagate_error and compute_quality_score: except (ValueError, RuntimeError).
PromoteAllExceptions(method, outcome) ==
    IF outcome = "ok" THEN WrapperRaised(method, "none", outcome)
    ELSE IF IsException(outcome) THEN WrapperRaised(method, "RustCoreError", outcome)
    ELSE WrapperRaised(method, outcome, outcome)

PromoteValueAndRuntimeErrors(method, outcome) ==
    IF outcome = "ok" THEN WrapperRaised(method, "none", outcome)
    ELSE IF outcome \in {"ValueError", "RuntimeError"}
         THEN WrapperRaised(method, "RustCoreError", outcome)
    ELSE WrapperRaised(method, outcome, outcome)

\* validate_dimensions, check_physics_consistency and propagate_error.
WrapperCall(method, env) ==
    IF PrepareArrays(method, env.uncastable) # "none"
    THEN WrapperRaised(method, "RustCoreError", "not called")
    ELSE PromoteValueAndRuntimeErrors(method, env.backend)

\* compute_quality_score: the required keys are checked first.
ComputeQualityScore(env) ==
    IF env.missing THEN WrapperRaised("compute_quality_score", "RustCoreError", "not called")
    ELSE WrapperCall("compute_quality_score", env)

\* compute_zt_from_csv: except Exception.
ComputeZtFromCsv(env) == PromoteAllExceptions("compute_zt_from_csv", env.backend)

MaxArrays == PreparedArrays("propagate_error")

\* The environments of a wrapper call: which argument, if any, cannot be
\* cast, whether a required metric is missing, what the backend does.
WrapperEnvs == [uncastable : 0..MaxArrays, missing : BOOLEAN, backend : BackendOutcomes]

\* ------------------------------------------------------------------------
\* db/connection.py: with_exponential_backoff
\* ------------------------------------------------------------------------

MaxRetries == 2

\* except (OperationalError, ServiceUnavailable, TransientError)
TransientErrors == {"OperationalError", "ServiceUnavailable", "TransientError"}

\* What one invocation of the wrapped function does.
FuncOutcomes == {"ok", "ValueError"} \cup TransientErrors

\* if attempt > max_retries
ExhaustedOneEarly(attempt, max_retries) == attempt >= max_retries

Exhausted(attempt, max_retries) == attempt > max_retries

\* The wrapper before its first statement; calls and sleeps count the
\* invocations of func and of time.sleep.
NoBackoff ==
    [pc |-> "idle", attempt |-> 0, calls |-> 0, sleeps |-> 0,
     returned |-> "none", raised |-> "none"]

\* while attempt <= max_retries
WhileTest(run, max_retries) ==
    IF run.attempt <= max_retries THEN [run EXCEPT !.pc = "try"]
    ELSE [run EXCEPT !.pc = "done", !.returned = "None"]

\* The body of the loop up to time.sleep: func is invoked and does o.
TryFunc(run, max_retries, o) ==
    LET called == [run EXCEPT !.calls = @ + 1]
    IN  IF o = "ok" THEN [called EXCEPT !.pc = "done", !.returned = "ok"]
        ELSE IF o \in TransientErrors
        THEN LET failed == [called EXCEPT !.attempt = @ + 1]
             IN  IF Exhausted(failed.attempt, max_retries)
                 THEN [failed EXCEPT !.pc = "done",
                                     !.raised = "ConnectionTimeoutError"]
                 ELSE [failed EXCEPT !.pc = "sleep"]
        ELSE [called EXCEPT !.pc = "done", !.raised = o]

\* time.sleep(wait_time) returns and the loop tests its condition again.
Slept(run, max_retries) == WhileTest([run EXCEPT !.sleeps = @ + 1], max_retries)

\* The decorated functions: max_retries and what each invocation will do.
BackoffEnvs ==
    [max_retries : 0..MaxRetries, script : [1..(MaxRetries + 1) -> FuncOutcomes]]

\* ------------------------------------------------------------------------
\* db/bulk_writer.py: the PostgreSQL, Neo4j and unified writers
\* ------------------------------------------------------------------------

MaxBatch == 2

\* The material UUIDs of the rows and nodes handed to the writers.
Uuids == {"u1", "u2"}

RangeOf(seq) == {seq[i] : i \in 1..Len(seq)}

\* What the PostgreSQL side does with a batch: it commits, psycopg2 raises
\* inside the try block, or the pool hands out no connection.
PgOutcomes == {"ok", "IntegrityError", "OperationalError", "Exception", "PoolError"}

\* What the Neo4j session does with a batch.
GraphOutcomes == {"ok", "Exception"}

\* PostgresBulkWriter.execute_batch: what it returns or raises, and the rows
\* it committed.
ExecuteBatch(data, outcome) ==
    IF data = <<>> THEN [returned |-> 0, raised |-> "none", committed |-> {}]
    ELSE IF outcome = "ok"
    THEN [returned |-> Len(data), raised |-> "none", committed |-> RangeOf(data)]
    ELSE IF outcome = "PoolError"
    THEN [returned |-> 0, raised |-> "PoolError", committed |-> {}]
    ELSE [returned |-> 0, raised |-> "PostgresBulkInsertError", committed |-> {}]

\* GraphBulkWriter.execute_unwind_batch.
ExecuteUnwindBatch(batch_data, outcome) ==
    IF batch_data = <<>> THEN [returned |-> 0, raised |-> "none", written |-> {}]
    ELSE IF outcome = "ok"
    THEN [returned |-> Len(batch_data), raised |-> "none",
          written |-> RangeOf(batch_data)]
    ELSE [returned |-> 0, raised |-> "Neo4jBulkInsertError", written |-> {}]

\* write_canonical_materials before its first statement; events lists the
\* calls into the two writers and their returns in program order.
NoWrite ==
    [pc |-> "idle", pg_inserted |-> 0, raised |-> "none", events |-> <<>>,
     uuid_pg |-> {}, uuid_neo4j |-> {}, warned |-> FALSE]

\* Phase 1: the PostgreSQL write; its error leaves the function.
WritePostgres(run, env) ==
    LET r == ExecuteBatch(env.materials_data, env.pg)
        called == Append(run.events, "pg_call")
    IN  IF r.raised # "none"
        THEN [run EXCEPT !.pc = "done", !.raised = r.raised, !.events = called]
        ELSE [run EXCEPT !.pc = "phase2", !.pg_inserted = r.returned,
                         !.uuid_pg = r.committed,
                         !.events = Append(called, "pg_return")]

\* Phase 2: the Neo4j write inside try / except Neo4jBulkInsertError.
WriteNeo4jUnwrapped(run, env) ==
    LET r == ExecuteUnwindBatch(env.graph_data, env.graph)
        called == Append(run.events, "neo4j_call")
    IN  IF r.raised # "none"
        THEN [run EXCEPT !.pc = "done", !.raised = r.raised, !.events = called]
        ELSE [run EXCEPT !.pc = "done", !.uuid_neo4j = r.written,
                         !.warned = (run.pg_inserted # r.returned),
                         !.events = Append(called, "neo4j_return")]

WriteNeo4j(run, env) ==
    LET r == ExecuteUnwindBatch(env.graph_data, env.graph)
        called == Append(run.events, "neo4j_call")
    IN  IF r.raised = "Neo4jBulkInsertError"
        THEN [run EXCEPT !.pc = "done", !.raised = "CrossSystemConsistencyError",
                         !.events = called]
        ELSE [run EXCEPT !.pc = "done", !.uuid_neo4j = r.written,
                         !.warned = (run.pg_inserted # r.returned),
                         !.events = Append(called, "neo4j_return")]

\* The batches of up to MaxBatch rows: PostgreSQL rows with distinct UUIDs,
\* graph rows with any UUIDs.
Batches == UNION {[1..n -> Uuids] : n \in 0..MaxBatch}

DistinctBatches ==
    {b \in Batches : \A i, j \in 1..Len(b) : b[i] = b[j] => i = j}

WriterEnvs ==
    [materials_data : DistinctBatches, graph_data : Batches,
     pg : PgOutcomes, graph : GraphOutcomes]

\* ------------------------------------------------------------------------
\* utils/io.py and dataset/parquet_writer.py: atomic, locked file I/O
\* ------------------------------------------------------------------------

MaxChunks == 2

\* The threads that call the I/O functions on one resolved path.
Threads == {"t1", "t2"}

\* The functions that take the file lock, and write_parquet, which does not.
LockedWriters == {"write_parquet_safely", "write_json_metadata", "write_yaml_metadata"}
Writers == LockedWriters \cup {"write_parquet"}
Readers == {"read_parquet_safely"}

\* Where a call may fail: nowhere, at the schema check, while the temporary
\* file is written (at chunk number at), in the record stream, at the rename.
FailurePoints(op) ==
    CASE op = "write_parquet_safely" -> {"none", "schema", "write", "rename"}
      [] op \in {"write_json_metadata", "write_yaml_metadata"} ->
            {"none", "write", "rename"}
      [] op = "write_parquet" -> {"none", "schema", "stream", "rename"}
      [] OTHER -> {"none"}

DuringWrite(op, fail) ==
    \/ fail \in {"write", "stream"}
    \/ op = "write_parquet" /\ fail = "schema"

CallsOf(op, fail) ==
    {[op |-> op, fail |-> fail, at |-> at] :
        at \in IF DuringWrite(op, fail) THEN 0..(MaxChunks - 1) ELSE {0}}

CallsTo(op) == UNION {CallsOf(op, fail) : fail \in FailurePoints(op)}

Calls == UNION {CallsTo(op) : op \in Writers \cup Readers}

\* The complete content a writer produces, and the one the file had before.
Content(who) == [i \in 1..MaxChunks |-> <<who, i>>]

\* The error a writer raises from its except clause.
WriteError(op) == IF op = "write_parquet" THEN "ParquetWriteError" ELSE "AtomicWriteError"

\* The file system and the lock table before any call: the destination
\* holds the old file or none; dest names the file the path points to, temp
\* the temporary files that exist, file the content of each file.
InitialFiles(exists) ==
    [FILE_LOCKS |-> 0, locks |-> 0, GLOBAL_LOCK |-> "none",
     held |-> [l \in 1..Cardinality(Threads) |-> "none"],
     dest |-> IF exists THEN "old" ELSE "none",
     temp |-> [t \in Threads |-> FALSE],
     file |-> [w \in Threads \cup {"old"} |->
                 IF w = "old" /\ exists THEN Content("old") ELSE <<>>]]

NoThread == [pc |-> "start", lock |-> 0, opened |-> "none", seen |-> <<>>,
             raised |-> "none", replaced |-> FALSE]

\* with _GLOBAL_LOCK: the lock is taken when no thread holds it.
GlobalLockIgnored(fs) == TRUE

GlobalLockFree(fs) == fs.GLOBAL_LOCK = "none"

\* temp_path.replace(path): the path now names the writer's file.
Replace(fs, t) == [fs EXCEPT !.dest = t, !.temp[t] = FALSE]

\* if temp_path.exists(): temp_path.unlink()
UnlinkSkipped(fs, t) == fs

Unlink(fs, t) == [fs EXCEPT !.temp[t] = FALSE]

\* The statement after the file lock is released or, for write_parquet,
\* after the try statement.
AfterSection(op) == IF op = "write_parquet" THEN "done" ELSE "release"

\* ------------------------------------------------------------------------
\* pipeline/ingestion.py: MeasurementIngestor
\* ------------------------------------------------------------------------

MaxFrame == 2

\* The values a record holds under a key: a float, a string, None, or no
\* entry at all.
Float(x) == [kind |-> "float", v |-> x, text |-> ""]
Str(s) == [kind |-> "str", v |-> NaN, text |-> s]
PyNone == [kind |-> "None", v |-> NaN, text |-> ""]
Absent == [kind |-> "absent", v |-> NaN, text |-> ""]

QuantityFields == <<"T", "S", "sigma", "kappa">>
UncertaintyFields == <<"u_T", "u_S", "u_sigma", "u_kappa">>
MeasuredFields == QuantityFields \o UncertaintyFields

\* field not in record or pd.isna(record[field]): pd.isna is True for None
\* and for a float NaN, False for every string.
Missing(x) ==
    \/ x.kind \in {"absent", "None"}
    \/ x.kind = "float" /\ IsNaN(x.v)

\* float(x): a float is itself, a string is parsed ("nan" and "inf" are
\* floats too), any other string raises ValueError.
ParsesAsFloat(x) == x.kind = "float" \/ x.text \in {"nan", "inf", "2"}

ToFloat(x) ==
    IF x.kind = "float" THEN x.v
    ELSE CASE x.text = "nan" -> NaN
           [] x.text = "inf" -> PInf
           [] OTHER -> F(2)

ThermognosisErrors ==
    {"ThermognosisMissingDataError", "ThermognosisPhysicalConstraintError",
     "ThermognosisUncertaintyError"}

NoEntity == [T |-> NaN, S |-> NaN, sigma |-> NaN, kappa |-> NaN,
             sigma_T |-> NaN, sigma_S |-> NaN, sigma_sigma |-> NaN,
             sigma_kappa |-> NaN]

IngestRaised(e) == [raised |-> e, entity |-> NoEntity]

\* ingest_record: the mandatory fields, the conversions, the physical
\* constraints (the Wiedemann-Franz test only warns), the uncertainties.
IngestRecord(record) ==
    IF \E i \in 1..Len(MeasuredFields) : Missing(record[MeasuredFields[i]])
    THEN IngestRaised("ThermognosisMissingDataError")
    ELSE IF \E i \in 1..Len(MeasuredFields) : ~ParsesAsFloat(record[MeasuredFields[i]])
    THEN IngestRaised("ValueError")
    ELSE
    LET e == [T |-> ToFloat(record.T), S |-> ToFloat(record.S),
              sigma |-> ToFloat(record.sigma), kappa |-> ToFloat(record.kappa),
              sigma_T |-> ToFloat(record.u_T), sigma_S |-> ToFloat(record.u_S),
              sigma_sigma |-> ToFloat(record.u_sigma),
              sigma_kappa |-> ToFloat(record.u_kappa)]
    IN  IF FLe(e.T, F(0)) \/ FLe(e.sigma, F(0)) \/ FLe(e.kappa, F(0))
        THEN IngestRaised("ThermognosisPhysicalConstraintError")
        ELSE IF \E u \in {e.sigma_T, e.sigma_S, e.sigma_sigma, e.sigma_kappa} :
                    FLt(u, F(0))
        THEN IngestRaised("ThermognosisUncertaintyError")
        ELSE [raised |-> "none", entity |-> e]

\* ingest_dataframe from row i on, entities holding the rows ingested so
\* far: the first row that raises ends the call with its exception.
RECURSIVE IngestRows(_, _, _)
IngestRows(df, i, entities) ==
    IF i > Len(df) THEN [raised |-> "none", entities |-> entities]
    ELSE LET r == IngestRecord(df[i])
         IN  IF r.raised # "none" THEN [raised |-> r.raised, entities |-> <<>>]
             ELSE IngestRows(df, i + 1, Append(entities, r.entity))

IngestDataframe(df) == IngestRows(df, 1, <<>>)

\* ---- the records the ingestor is exercised on ----

GoodRecord ==
    [T |-> Float(F(1)), S |-> Float(F(1)), sigma |-> Float(F(1)),
     kappa |-> Float(F(2)), u_T |-> Float(F(0)), u_S |-> Float(F(1)),
     u_sigma |-> Float(F(0)), u_kappa |-> Float(F(0))]

CellValues ==
    {Float(F(0)), Float(F(-1)), Float(F(2)), Float(NaN), Float(PInf),
     Str("nan"), Str("inf"), Str("2"), Str("abc"), PyNone}

FieldSet == {MeasuredFields[i] : i \in 1..Len(MeasuredFields)}

\* The good record with up to two of its values replaced or removed.
Records ==
    {GoodRecord}
    \cup {[GoodRecord EXCEPT ![f] = x] : f \in FieldSet, x \in CellValues \cup {Absent}}
    \cup {[GoodRecord EXCEPT ![f] = x, ![h] = y] :
            f \in FieldSet, h \in FieldSet, x \in CellValues, y \in CellValues}

\* The rows of a DataFrame: every column is there, one cell may be off.
FrameRows ==
    {GoodRecord}
    \cup {[GoodRecord EXCEPT ![f] = x] : f \in {"T", "u_T"}, x \in CellValues}

Frames == UNION {[1..n -> FrameRows] : n \in 0..MaxFrame}

IngestInputs ==
    {[op |-> "ingest_record", record |-> r, df |-> <<>>] : r \in Records}
    \cup {[op |-> "ingest_dataframe", record |-> GoodRecord, df |-> df] : df \in Frames}

\* ------------------------------------------------------------------------
\* pipeline/orchestrator.py: run_pipeline; pipeline/result.py: PipelineResult
\* ------------------------------------------------------------------------

MaxRecords == 2
MaxPoints == 2

\* A cell of the joined DataFrame as ast.literal_eval and np.array see it:
\* a list of numbers, a bare number (len() of the 0-d array raises
\* TypeError), text that is no literal (SyntaxError or ValueError), or a
\* column that is not there (KeyError).
ListCell(points) == [kind |-> "list", points |-> points]
ScalarCell == [kind |-> "scalar", points |-> <<>>]
MalformedCell == [kind |-> "malformed", points |-> <<>>]
MissingCell == [kind |-> "missing", points |-> <<>>]

ArrayColumns ==
    <<"temperature", "seebeck", "electrical_conductivity", "thermal_conductivity">>

\* float(row.get('credibility_prior', 0.5)): no column gives 0.5, text that
\* is no number raises ValueError.
CredPrior(row) ==
    CASE row.credibility_prior = "absent" -> Rat(1, 2)
      [] row.credibility_prior = "one" -> F(1)
      [] OTHER -> NaN

\* __post_init__ of PipelineResult: the exception raised, or "none".
PostInit(r) ==
    IF \/ r.total_processed < 0 \/ r.total_failed < 0 \/ r.total_inserted < 0
       \/ r.physics_violations < 0
       \/ r.processing_time_seconds < 0
       \/ r.total_inserted + r.total_failed > r.total_processed
    THEN "PipelineMetricValidationError"
    ELSE "none"

PipelineResult(processed, failed, inserted, violations, seconds) ==
    [total_processed |-> processed, total_failed |-> failed,
     total_inserted |-> inserted, physics_violations |-> violations,
     processing_time_seconds |-> seconds]

NoResult == PipelineResult(0, 0, 0, 0, 0)

NoPipelineRun ==
    [pc |-> "idle", idx |-> 1, total_processed |-> 0, total_failed |-> 0,
     t_list |-> <<>>, s_list |-> <<>>, sigma_list |-> <<>>, kappa_list |-> <<>>,
     credibility_list |-> <<>>, record_lengths |-> <<>>,
     gate |-> <<>>, raised |-> "none", result |-> NoResult]

\* One pass of the parsing loop over row idx: the four arrays are appended
\* as soon as their lengths agree, the credibility array and the record
\* length only after the prior is converted; any of the four caught
\* exceptions counts the row as failed. Every entry carries the index of the
\* row it was parsed from.
ParseRow(run, idx, row) ==
    LET cells == [i \in 1..4 |-> row[ArrayColumns[i]]]
        n == Len(cells[1].points)
        entry(i) == [row |-> idx, points |-> cells[i].points]
        failed == [run EXCEPT !.total_failed = @ + 1]
    IN  IF \E i \in 1..4 : cells[i].kind # "list" THEN failed
        ELSE IF \E i \in 2..4 : Len(cells[i].points) # n THEN failed
        ELSE LET appended ==
                    [run EXCEPT !.t_list = Append(@, entry(1)),
                                !.s_list = Append(@, entry(2)),
                                !.sigma_list = Append(@, entry(3)),
                                !.kappa_list = Append(@, entry(4))]
             IN  IF row.credibility_prior = "text"
                 THEN [appended EXCEPT !.total_failed = @ + 1]
                 ELSE [appended EXCEPT
                         !.credibility_list =
                             Append(@, [row |-> idx, points |-> Repeat(CredPrior(row), n)]),
                         !.record_lengths = Append(@, [row |-> idx, n |-> n])]

\* np.concatenate of the point arrays of a list.
RECURSIVE Concatenate(_)
Concatenate(list) ==
    IF list = <<>> THEN <<>> ELSE Head(list).points \o Concatenate(Tail(list))

\* The gate of point j: zT >= 0, T > 0, kappa > 0, sigma > 0.
HardConstraintGate(zt_flat, t_flat, kappa_flat, sigma_flat) ==
    [j \in 1..Len(t_flat) |->
        /\ FGreaterEqual0(zt_flat[j]) /\ FGreater0(t_flat[j])
        /\ FGreater0(kappa_flat[j]) /\ FGreater0(sigma_flat[j])]

\* np.split(a, np.cumsum(lengths)[:-1]): one piece per record, the last
\* piece taking whatever is left.
RECURSIVE Split(_, _)
Split(a, lengths) ==
    IF Len(lengths) <= 1 THEN <<a>>
    ELSE LET n == IF Head(lengths) < Len(a) THEN Head(lengths) ELSE Len(a)
         IN  <<SubSeq(a, 1, n)>> \o Split(SubSeq(a, n + 1, Len(a)), Tail(lengths))

\* The record-level loop: a record with a point outside the gate is a
\* physics violation, any other is inserted.
PhysicsViolations(gates_per_record) ==
    Cardinality({i \in 1..Len(gates_per_record) :
        \E j \in 1..Len(gates_per_record[i]) : ~gates_per_record[i][j]})

\* ---- the runs the orchestrator is exercised on ----

PointValues == {F(1), F(-1)}

GoodCells(n) ==
    [temperature |-> ListCell(Repeat(F(1), n)), seebeck |-> ListCell(Repeat(F(1), n)),
     electrical_conductivity |-> ListCell(Repeat(F(1), n)),
     thermal_conductivity |-> ListCell(Repeat(F(2), n)),
     credibility_prior |-> "absent"]

\* A row of n points that parses, with at most one cell off: any array one
\* point longer or no literal, the temperature also a bare number, absent or
\* negative.
RowsOf(n) ==
    {GoodCells(n)}
    \cup {[GoodCells(n) EXCEPT ![c] = x] :
            c \in {ArrayColumns[i] : i \in 1..4},
            x \in {MalformedCell, ListCell(Repeat(F(1), n + 1))}}
    \cup {[GoodCells(n) EXCEPT !.temperature = x] :
            x \in {ScalarCell, MissingCell, ListCell(Repeat(F(-1), n))}}
    \cup {[GoodCells(n) EXCEPT !.credibility_prior = p] : p \in {"one", "text"}}

DataFrames ==
    UNION {[1..k -> RowsOf(0) \cup RowsOf(MaxPoints)] : k \in 0..MaxRecords}

\* time.time() read twice: the wall clock may have been set back in between.
ClockReadings == {0, 1}

\* The joined frame and the first clock reading; what the file reads, the
\* backend and the later clock readings give is chosen when they happen.
OrchestratorEnvs == [df : DataFrames, start_time : ClockReadings]

\* ------------------------------------------------------------------------
\* db/connection.py: PostgresManager, Neo4jManager
\* ------------------------------------------------------------------------

MaxCalls == 2

Managers == {"PostgresManager", "Neo4jManager"}

\* What _initialize, retried by with_exponential_backoff, ends with: it
\* completes, or an exception leaves it (ConnectionTimeoutError after the
\* retries, or an error that is not retried).
InitializeOutcomes == {"completed", "raised"}

\* A class before its first call: _instance is None, no object was made.
NoManager == [instance |-> Null, created |-> 0, initialized |-> {}, returned |-> {}]

NoCaller == [pc |-> "idle", cls |-> "PostgresManager", obj |-> Null, calls |-> 0]

\* ------------------------------------------------------------------------
\* Initial states and operations
\* ------------------------------------------------------------------------

NoScore ==
    [op |-> "none", gate |-> FALSE, param |-> F(0), raised |-> "none", msg |-> "",
     value |-> NaN, flag |-> FALSE, cls |-> "", args |-> <<0, 0>>]

\* The outcome of a scoring call with result r.
Score(op, gate, param, r) ==
    [NoScore EXCEPT !.op = op, !.gate = gate, !.param = param,
                    !.raised = r.raised, !.msg = r.msg, !.value = r.value]

ScorerInputs == [weights : WeightArgs, c1 : Components1, c2 : Components2]

\* A component that is not exercised: no call made, no object built.
IdleValidator ==
    /\ vargs = ArgsOf(<<>>, "none", None, None)
    /\ vout = NoCall

IdleScorer ==
    /\ sin = [weights |-> NoWeights, c1 |-> Six(F(0)), c2 |-> Six(F(0))]
    /\ scorer = NoScorer
    /\ qobj = [j \in {1, 2} |-> NoVector]
    /\ sout = NoScore

NoCredibilityCall == [op |-> "none", raised |-> "none", msg |-> "", value |-> NaN]

IdleCredibility ==
    /\ cin = [w_source |-> F(0), n_rep |-> 0, w_unc |-> F(0), delta_phys |-> F(0),
              n |-> 0, e_cv |-> F(0), t_current |-> F(0), t_pub |-> F(0),
              alpha |-> F(1), n_0 |-> F(10), beta |-> F(1),
              lambda_time |-> Rat(1, 20)]
    /\ cout = NoCredibilityCall

IdlePipelines ==
    /\ penv = [rows |-> <<>>, ffi |-> [raises |-> TRUE, results |-> <<>>]]
    /\ prun = NoRun

NoTarget == [op |-> "none", hist |-> <<>>, N |-> 0, dkl_gradients |-> <<>>,
             optimal_acquisition_bin |-> -1]

IdleAcquisition ==
    /\ hin = [dom |-> [t_min |-> 0, t_max |-> 0, num_bins |-> 0], t_array |-> <<>>]
    /\ hout = NoTarget

IdleWrapper ==
    /\ wenv = [uncastable |-> 0, missing |-> FALSE, backend |-> "ok"]
    /\ wout = NoWrapperCall

IdleBackoff ==
    /\ benv = [max_retries |-> 0, script |-> <<>>]
    /\ brun = NoBackoff

IdleWriter ==
    /\ uenv = [materials_data |-> <<>>, graph_data |-> <<>>, pg |-> "ok", graph |-> "ok"]
    /\ urun = NoWrite

IdleFiles ==
    /\ fenv = [call |-> <<>>, exists |-> FALSE]
    /\ ffs = InitialFiles(FALSE)
    /\ fth = <<>>

IdleIngestor ==
    /\ iin = [op |-> "none", record |-> <<>>, df |-> <<>>]
    /\ iout = [op |-> "none", raised |-> "none", entities |-> <<>>]

IdleOrchestrator ==
    /\ oenv = [df |-> <<>>, start_time |-> 0]
    /\ orun = NoPipelineRun

IdleManagers ==
    /\ mcls = [c \in Managers |-> NoManager]
    /\ mth = [t \in Threads |-> NoCaller]

\* Every component but c is idle.
OthersIdle(c) ==
    /\ IF c = "validator" THEN TRUE ELSE IdleValidator
    /\ IF c = "scorer" THEN TRUE ELSE IdleScorer
    /\ IF c = "credibility" THEN TRUE ELSE IdleCredibility
    /\ IF c = "pipelines" THEN TRUE ELSE IdlePipelines
    /\ IF c = "acquisition" THEN TRUE ELSE IdleAcquisition
    /\ IF c = "wrapper" THEN TRUE ELSE IdleWrapper
    /\ IF c = "backoff" THEN TRUE ELSE IdleBackoff
    /\ IF c = "writer" THEN TRUE ELSE IdleWriter
    /\ IF c = "files" THEN TRUE ELSE IdleFiles
    /\ IF c = "ingestor" THEN TRUE ELSE IdleIngestor
    /\ IF c = "orchestrator" THEN TRUE ELSE IdleOrchestrator
    /\ IF c = "managers" THEN TRUE ELSE IdleManagers

InitValidator ==
    /\ vargs \in ValidatorArgs
    /\ vout = NoCall
    /\ OthersIdle("validator")

InitScorer ==
    /\ sin \in ScorerInputs
    /\ scorer = NoScorer
    /\ qobj = [j \in {1, 2} |-> NoVector]
    /\ sout = NoScore
    /\ OthersIdle("scorer")

InitCredibility ==
    /\ cin \in CredibilityArgs
    /\ cout = NoCredibilityCall
    /\ OthersIdle("credibility")

InitPipelines ==
    /\ penv \in PipelineEnvs
    /\ prun = NoRun
    /\ OthersIdle("pipelines")

InitAcquisition ==
    /\ hin \in GradientInputs
    /\ hout = NoTarget
    /\ OthersIdle("acquisition")

InitWrapper ==
    /\ wenv \in WrapperEnvs
    /\ wout = NoWrapperCall
    /\ OthersIdle("wrapper")

\* One call of compute_zt on the arguments.
ComputeZtCall ==
    /\ vout.op = "none"
    /\ LET r == ComputeZt(vargs)
       IN  vout' = Outcome("compute_zt", FALSE, r.raised, 0,
                           <<>>, <<>>, <<>>, <<>>, r.zT, r.zT_err, <<>>)
    /\ UNCHANGED <<vargs, restOfValidator>>

\* One call of validate on the arguments.
ValidateCall ==
    /\ vout.op = "none"
    /\ \E strict \in BOOLEAN, g \in Garbage(vargs) :
            vout' = Validate(vargs, strict, g)
    /\ UNCHANGED <<vargs, restOfValidator>>

\* QualityScorer(weights): the instance is kept only if __init__ returns.
NewQualityScorer ==
    /\ LET r == QualityScorerInit(sin.weights)
       IN  /\ scorer' = IF r.raised = "none" THEN r.obj ELSE scorer
           /\ sout' = [NoScore EXCEPT !.op = "QualityScorer",
                                      !.raised = r.raised, !.msg = r.msg]
    /\ UNCHANGED <<sin, qobj, restOfScorer>>

\* QualityVector(...) for the first or the second component tuple.
NewQualityVector ==
    /\ \E j \in {1, 2} :
            qobj' = [qobj EXCEPT
                        ![j] = QualityVector(IF j = 1 THEN sin.c1 ELSE sin.c2)]
    /\ sout' = [NoScore EXCEPT !.op = "QualityVector"]
    /\ UNCHANGED <<sin, scorer, restOfScorer>>

ScoreLinearCall ==
    /\ scorer.exists /\ qobj[1].exists
    /\ \E gate \in BOOLEAN :
            sout' = Score("score_linear", gate, F(0),
                          ScoreLinear(scorer, gate, qobj[1]))
    /\ UNCHANGED <<sin, scorer, qobj, restOfScorer>>

ScoreMultiplicativeCall ==
    /\ scorer.exists /\ qobj[1].exists
    /\ \E gate \in BOOLEAN :
            sout' = Score("score_multiplicative", gate, F(0),
                          ScoreMultiplicative(scorer, gate, qobj[1]))
    /\ UNCHANGED <<sin, scorer, qobj, restOfScorer>>

ScoreEntropyRegularizedCall ==
    /\ scorer.exists /\ qobj[1].exists
    /\ \E gate \in BOOLEAN, lambda_reg \in Lambdas :
            sout' = Score("score_entropy_regularized", gate, lambda_reg,
                          ScoreEntropyRegularized(scorer, gate, qobj[1], lambda_reg))
    /\ UNCHANGED <<sin, scorer, qobj, restOfScorer>>

\* The squares of the weights are computed in 32-bit integers here: a call
\* that gets past the gate is made on weights whose squares fit.
SquaresFit(w) == \A i \in 1..Len(w) : w[i].d <= 1000

ScoreRiskAdjustedCall ==
    /\ scorer.exists /\ qobj[1].exists /\ qobj[2].exists
    /\ \E gate \in BOOLEAN, gamma \in Gammas :
        /\ gate => SquaresFit(scorer.weights)
        /\ sout' = Score("score_risk_adjusted", gate, gamma,
                         ScoreRiskAdjusted(scorer, gate, qobj[1], qobj[2], gamma))
    /\ UNCHANGED <<sin, scorer, qobj, restOfScorer>>

\* classify is a static method: any score may be passed.
ClassifyCall ==
    /\ \E score \in ClassifyScores :
            sout' = [NoScore EXCEPT !.op = "classify", !.param = score,
                                    !.cls = Classify(score)]
    /\ UNCHANGED <<sin, scorer, qobj, restOfScorer>>

\* pareto_dominates is a static method: it is called on any two of the
\* vectors built, in either order, or on one vector twice.
ParetoDominatesCall ==
    /\ \E i \in {1, 2}, j \in {1, 2} :
        /\ qobj[i].exists /\ qobj[j].exists
        /\ LET r == ParetoDominates(qobj[i], qobj[j])
           IN  sout' = [NoScore EXCEPT !.op = "pareto_dominates", !.args = <<i, j>>,
                                       !.raised = r.raised, !.msg = r.msg,
                                       !.flag = r.flag]
    /\ UNCHANGED <<sin, scorer, qobj, restOfScorer>>

\* One call of calculate_credibility (a static method) on the arguments.
CalculateCredibilityCall ==
    /\ LET r == CalculateCredibility(cin)
       IN  cout' = [op |-> "calculate_credibility", raised |-> r.raised,
                    msg |-> r.msg, value |-> r.value]
    /\ UNCHANGED <<cin, restOfCredibility>>

\* One call of detect_and_rank_gaps, made when no call is in progress; the
\* query returns the rows or fails.
DetectAndRankGapsCall ==
    /\ prun.pc = "done"
    /\ \E db \in {"rows", "SQLAlchemyError"} :
            prun' = DetectAndRankGaps(penv.rows, db, penv.ffi)
    /\ UNCHANGED <<penv, restOfPipelines>>

\* update_all_ranks, first step: the query (which returns the rows or
\* fails) and the tensors.
UpdateAllRanksFetchStep ==
    /\ prun.pc = "done"
    /\ \E db \in {"rows", "Exception"} :
            prun' = UpdateAllRanksFetch(penv.rows, db)
    /\ UNCHANGED <<penv, restOfPipelines>>

\* update_all_ranks, second step: the backend call.
UpdateAllRanksBackendStep ==
    /\ prun.op = "update_all_ranks" /\ prun.pc = "backend"
    /\ prun' = UpdateAllRanksBackend(prun, penv.ffi)
    /\ UNCHANGED <<penv, restOfPipelines>>

\* update_all_ranks, last step: the length check and the bulk write (which
\* succeeds or fails).
UpdateAllRanksWriteBackStep ==
    /\ prun.op = "update_all_ranks" /\ prun.pc = "check"
    /\ \E writer \in {"ok", "Exception"} :
            prun' = UpdateAllRanksWriteBack(prun, writer)
    /\ UNCHANGED <<penv, restOfPipelines>>

\* The acquisition target computed on the sample.
OptimalAcquisitionBinCall ==
    /\ hout.op = "none"
    /\ LET r == OptimalAcquisitionBin(hin.t_array, hin.dom.t_min, hin.dom.t_max,
                                      hin.dom.num_bins)
       IN  hout' = [op |-> "optimal_acquisition_bin", hist |-> r.hist, N |-> r.N,
                    dkl_gradients |-> r.dkl_gradients,
                    optimal_acquisition_bin |-> r.optimal_acquisition_bin]
    /\ UNCHANGED <<hin, restOfAcquisition>>

NextValidator == ComputeZtCall \/ ValidateCall

NextScorer ==
    \/ NewQualityScorer
    \/ NewQualityVector
    \/ ScoreLinearCall
    \/ ScoreMultiplicativeCall
    \/ ScoreEntropyRegularizedCall
    \/ ScoreRiskAdjustedCall
    \/ ClassifyCall
    \/ ParetoDominatesCall

NextCredibility == CalculateCredibilityCall

NextAcquisition == OptimalAcquisitionBinCall

ComputeZtFromCsvCall ==
    /\ wout' = ComputeZtFromCsv(wenv)
    /\ UNCHANGED <<wenv, restOfWrapper>>

ValidateDimensionsCall ==
    /\ wout' = WrapperCall("validate_dimensions", wenv)
    /\ UNCHANGED <<wenv, restOfWrapper>>

CheckPhysicsConsistencyCall ==
    /\ wout' = WrapperCall("check_physics_consistency", wenv)
    /\ UNCHANGED <<wenv, restOfWrapper>>

PropagateErrorCall ==
    /\ wout' = WrapperCall("propagate_error", wenv)
    /\ UNCHANGED <<wenv, restOfWrapper>>

ComputeQualityScoreCall ==
    /\ wout' = ComputeQualityScore(wenv)
    /\ UNCHANGED <<wenv, restOfWrapper>>

NextWrapper ==
    \/ ComputeZtFromCsvCall
    \/ ValidateDimensionsCall
    \/ CheckPhysicsConsistencyCall
    \/ PropagateErrorCall
    \/ ComputeQualityScoreCall

NextPipelines ==
    \/ DetectAndRankGapsCall
    \/ UpdateAllRanksFetchStep
    \/ UpdateAllRanksBackendStep
    \/ UpdateAllRanksWriteBackStep

InitBackoff ==
    /\ benv \in BackoffEnvs
    /\ brun = NoBackoff
    /\ OthersIdle("backoff")

\* The caller calls the decorated function.
BackoffCall ==
    /\ brun.pc = "idle"
    /\ brun' = WhileTest(brun, benv.max_retries)
    /\ UNCHANGED <<benv, restOfBackoff>>

BackoffTry ==
    /\ brun.pc = "try"
    /\ brun' = TryFunc(brun, benv.max_retries, benv.script[brun.calls + 1])
    /\ UNCHANGED <<benv, restOfBackoff>>

BackoffSleep ==
    /\ brun.pc = "sleep"
    /\ brun' = Slept(brun, benv.max_retries)
    /\ UNCHANGED <<benv, restOfBackoff>>

NextBackoff == BackoffCall \/ BackoffTry \/ BackoffSleep

InitWriter ==
    /\ uenv \in WriterEnvs
    /\ urun = NoWrite
    /\ OthersIdle("writer")

WritePostgresStep ==
    /\ urun.pc = "idle"
    /\ urun' = WritePostgres(urun, uenv)
    /\ UNCHANGED <<uenv, restOfWriter>>

WriteNeo4jStep ==
    /\ urun.pc = "phase2"
    /\ urun' = WriteNeo4j(urun, uenv)
    /\ UNCHANGED <<uenv, restOfWriter>>

NextWriter == WritePostgresStep \/ WriteNeo4jStep

InitFiles ==
    /\ fenv \in [call : [Threads -> Calls], exists : BOOLEAN]
    /\ ffs = InitialFiles(fenv.exists)
    /\ fth = [t \in Threads |-> NoThread]
    /\ OthersIdle("files")

\* The statements ahead of the lock: the schema check of
\* write_parquet_safely, the existence check of read_parquet_safely.
EnterCall(t) ==
    /\ fth[t].pc = "start"
    /\ LET c == fenv.call[t]
       IN  fth' = [fth EXCEPT ![t] =
                CASE c.op = "write_parquet_safely" /\ c.fail = "schema" ->
                        [@ EXCEPT !.pc = "done", !.raised = "SchemaViolationError"]
                  [] c.op \in Readers /\ ffs.dest = "none" ->
                        [@ EXCEPT !.pc = "done", !.raised = "FileNotFoundError"]
                  [] c.op = "write_parquet" -> [@ EXCEPT !.pc = "write"]
                  [] OTHER -> [@ EXCEPT !.pc = "gfl_enter"]]
    /\ UNCHANGED <<fenv, ffs, restOfFiles>>

\* _get_file_lock: with _GLOBAL_LOCK
GetFileLockEnter(t) ==
    /\ fth[t].pc = "gfl_enter"
    /\ GlobalLockFree(ffs)
    /\ ffs' = [ffs EXCEPT !.GLOBAL_LOCK = t]
    /\ fth' = [fth EXCEPT ![t].pc = "gfl_check"]
    /\ UNCHANGED <<fenv, restOfFiles>>

\* if resolved_path not in _FILE_LOCKS
GetFileLockCheck(t) ==
    /\ fth[t].pc = "gfl_check"
    /\ fth' = [fth EXCEPT ![t].pc =
                IF ffs.FILE_LOCKS = 0 THEN "gfl_create" ELSE "gfl_return"]
    /\ UNCHANGED <<fenv, ffs, restOfFiles>>

\* _FILE_LOCKS[resolved_path] = threading.Lock()
GetFileLockCreate(t) ==
    /\ fth[t].pc = "gfl_create"
    /\ ffs' = [ffs EXCEPT !.FILE_LOCKS = ffs.locks + 1, !.locks = ffs.locks + 1]
    /\ fth' = [fth EXCEPT ![t].pc = "gfl_return"]
    /\ UNCHANGED <<fenv, restOfFiles>>

\* return _FILE_LOCKS[resolved_path], leaving the with block
GetFileLockReturn(t) ==
    /\ fth[t].pc = "gfl_return"
    /\ ffs' = [ffs EXCEPT !.GLOBAL_LOCK = "none"]
    /\ fth' = [fth EXCEPT ![t].lock = ffs.FILE_LOCKS, ![t].pc = "acquire"]
    /\ UNCHANGED <<fenv, restOfFiles>>

\* with lock
AcquireFileLock(t) ==
    /\ fth[t].pc = "acquire"
    /\ ffs.held[fth[t].lock] = "none"
    /\ ffs' = [ffs EXCEPT !.held[fth[t].lock] = t]
    /\ fth' = [fth EXCEPT ![t].pc =
                IF fenv.call[t].op \in Readers THEN "open" ELSE "write"]
    /\ UNCHANGED <<fenv, restOfFiles>>

\* The temporary file is created and written chunk by chunk; the write, the
\* serialisation or the record stream may fail on the way.
WriteChunk(t) ==
    /\ fth[t].pc = "write"
    /\ LET c == fenv.call[t]
           written == IF ffs.temp[t] THEN Len(ffs.file[t]) ELSE 0
       IN  IF DuringWrite(c.op, c.fail) /\ written = c.at
           THEN /\ fth' = [fth EXCEPT ![t].pc = "cleanup"]
                /\ ffs' = [ffs EXCEPT !.temp[t] = (c.op = "write_parquet" \/ written > 0),
                                      !.file[t] = IF ffs.temp[t] THEN @ ELSE <<>>]
           ELSE /\ ffs' = [ffs EXCEPT !.temp[t] = TRUE,
                                      !.file[t] = Append(IF ffs.temp[t] THEN @ ELSE <<>>,
                                                         <<t, written + 1>>)]
                /\ fth' = [fth EXCEPT ![t].pc =
                            IF written + 1 = MaxChunks THEN "replace" ELSE "write"]
    /\ UNCHANGED <<fenv, restOfFiles>>

\* temp_path.replace(path), which may fail.
ReplaceStep(t) ==
    /\ fth[t].pc = "replace"
    /\ IF fenv.call[t].fail = "rename"
       THEN /\ fth' = [fth EXCEPT ![t].pc = "cleanup"]
            /\ ffs' = ffs
       ELSE /\ ffs' = Replace(ffs, t)
            /\ fth' = [fth EXCEPT ![t].pc = AfterSection(fenv.call[t].op),
                                  ![t].replaced = TRUE]
    /\ UNCHANGED <<fenv, restOfFiles>>

\* except Exception: the temporary file is removed and the error raised.
CleanupStep(t) ==
    /\ fth[t].pc = "cleanup"
    /\ ffs' = Unlink(ffs, t)
    /\ fth' = [fth EXCEPT ![t].pc = AfterSection(fenv.call[t].op),
                          ![t].raised = WriteError(fenv.call[t].op)]
    /\ UNCHANGED <<fenv, restOfFiles>>

\* pq.read_table(path) opens the file the path names now ...
OpenStep(t) ==
    /\ fth[t].pc = "open"
    /\ fth' = [fth EXCEPT ![t].opened = ffs.dest, ![t].pc = "read"]
    /\ UNCHANGED <<fenv, ffs, restOfFiles>>

\* ... and reads it chunk by chunk to its end.
ReadChunk(t) ==
    /\ fth[t].pc = "read"
    /\ LET content == ffs.file[fth[t].opened]
           n == Len(fth[t].seen)
       IN  fth' = [fth EXCEPT ![t] =
                IF n < Len(content) THEN [@ EXCEPT !.seen = Append(@, content[n + 1])]
                ELSE [@ EXCEPT !.pc = "release"]]
    /\ UNCHANGED <<fenv, ffs, restOfFiles>>

\* Leaving the with lock block.
ReleaseFileLock(t) ==
    /\ fth[t].pc = "release"
    /\ ffs' = [ffs EXCEPT !.held[fth[t].lock] = "none"]
    /\ fth' = [fth EXCEPT ![t].pc = "done"]
    /\ UNCHANGED <<fenv, restOfFiles>>

NextFiles ==
    \E t \in Threads :
        \/ EnterCall(t)
        \/ GetFileLockEnter(t)
        \/ GetFileLockCheck(t)
        \/ GetFileLockCreate(t)
        \/ GetFileLockReturn(t)
        \/ AcquireFileLock(t)
        \/ WriteChunk(t)
        \/ ReplaceStep(t)
        \/ CleanupStep(t)
        \/ OpenStep(t)
        \/ ReadChunk(t)
        \/ ReleaseFileLock(t)

NoIngest == [op |-> "none", raised |-> "none", entities |-> <<>>]

InitIngestor ==
    /\ iin \in IngestInputs
    /\ iout = NoIngest
    /\ OthersIdle("ingestor")

IngestRecordCall ==
    /\ iout.op = "none" /\ iin.op = "ingest_record"
    /\ LET r == IngestRecord(iin.record)
       IN  iout' = [op |-> "ingest_record", raised |-> r.raised,
                    entities |-> IF r.raised = "none" THEN <<r.entity>> ELSE <<>>]
    /\ UNCHANGED <<iin, restOfIngestor>>

IngestDataframeCall ==
    /\ iout.op = "none" /\ iin.op = "ingest_dataframe"
    /\ LET r == IngestDataframe(iin.df)
       IN  iout' = [op |-> "ingest_dataframe", raised |-> r.raised,
                    entities |-> r.entities]
    /\ UNCHANGED <<iin, restOfIngestor>>

NextIngestor == IngestRecordCall \/ IngestDataframeCall

\* The return statement: the clock is read, the result is constructed, and
\* what __post_init__ raises leaves run_pipeline instead of the result.
Return(run, processed, failed, inserted, violations, end_time) ==
    LET r == PipelineResult(processed, failed, inserted, violations,
                            end_time - oenv.start_time)
    IN  IF PostInit(r) = "none" THEN [run EXCEPT !.pc = "returned", !.result = r]
        ELSE [run EXCEPT !.pc = "raised", !.raised = PostInit(r)]

InitOrchestrator ==
    /\ oenv \in OrchestratorEnvs
    /\ orun = [NoPipelineRun EXCEPT !.pc = "assimilate"]
    /\ OthersIdle("orchestrator")

\* 2. Data assimilation: the three reads and the two joins succeed or raise.
Assimilate ==
    /\ orun.pc = "assimilate"
    /\ \E assimilation \in {"ok", "Exception"}, end_time \in ClockReadings :
        orun' = IF assimilation = "Exception"
                THEN Return(orun, 0, 0, 0, 0, end_time)
                ELSE [orun EXCEPT !.pc = "parse", !.total_processed = Len(oenv.df)]
    /\ UNCHANGED <<oenv, restOfOrchestrator>>

\* 3. One iteration of the parsing loop.
ParseRecord ==
    /\ orun.pc = "parse" /\ orun.idx <= Len(oenv.df)
    /\ orun' = [ParseRow(orun, orun.idx, oenv.df[orun.idx]) EXCEPT !.idx = @ + 1]
    /\ UNCHANGED <<oenv, restOfOrchestrator>>

\* The loop is over: without a record length the run returns.
EndOfParsing ==
    /\ orun.pc = "parse" /\ orun.idx > Len(oenv.df)
    /\ \E end_time \in ClockReadings :
        orun' = IF orun.record_lengths = <<>>
                THEN Return(orun, orun.total_processed, orun.total_failed, 0, 0,
                            end_time)
                ELSE [orun EXCEPT !.pc = "ffi"]
    /\ UNCHANGED <<oenv, restOfOrchestrator>>

\* 4. The flat buffers go to the backend, which fails or answers with one
\* zT per point (the first of them negative or not); the gate is computed
\* from its answer.
RustDelegation ==
    /\ orun.pc = "ffi"
    /\ \E ffi \in {"ok", "RustCoreError"}, negative_zt \in BOOLEAN,
          end_time \in ClockReadings :
        LET t_flat == Concatenate(orun.t_list)
            sigma_flat == Concatenate(orun.sigma_list)
            kappa_flat == Concatenate(orun.kappa_list)
            zt_flat == [j \in 1..Len(t_flat) |->
                         IF j = 1 /\ negative_zt THEN F(-1) ELSE F(1)]
        IN  orun' = IF ffi = "RustCoreError"
                    THEN Return(orun, orun.total_processed, orun.total_processed,
                                0, 0, end_time)
                    ELSE [orun EXCEPT !.pc = "aggregate",
                             !.gate = HardConstraintGate(zt_flat, t_flat,
                                                         kappa_flat, sigma_flat)]
    /\ UNCHANGED <<oenv, restOfOrchestrator>>

\* 5.-7. The gates are split per record and counted; the insert buffers
\* are never filled, so nothing is written; the result is returned.
AggregateAndReturn ==
    /\ orun.pc = "aggregate"
    /\ \E end_time \in ClockReadings :
        LET lengths == [i \in 1..Len(orun.record_lengths) |-> orun.record_lengths[i].n]
            gates_per_record == Split(orun.gate, lengths)
            physics_violations == PhysicsViolations(gates_per_record)
            total_inserted == Len(gates_per_record) - physics_violations
        IN  orun' = Return(orun, orun.total_processed, orun.total_failed,
                           total_inserted, physics_violations, end_time)
    /\ UNCHANGED <<oenv, restOfOrchestrator>>

NextOrchestrator ==
    \/ Assimilate
    \/ ParseRecord
    \/ EndOfParsing
    \/ RustDelegation
    \/ AggregateAndReturn

InitManagers ==
    /\ mcls = [c \in Managers |-> NoManager]
    /\ mth = [t \in Threads |-> NoCaller]
    /\ OthersIdle("managers")

\* PostgresManager(), get_postgres_manager(), Neo4jManager() or
\* get_neo4j_manager(): __new__ is entered.
ManagerCall(t) ==
    /\ mth[t].pc = "idle" /\ mth[t].calls < MaxCalls
    /\ \E c \in Managers :
        mth' = [mth EXCEPT ![t] = [pc |-> "test", cls |-> c, obj |-> Null,
                                   calls |-> @.calls + 1]]
    /\ UNCHANGED <<mcls, restOfManagers>>

\* if cls._instance is None
TestInstance(t) ==
    /\ mth[t].pc = "test"
    /\ mth' = [mth EXCEPT ![t].pc =
                IF mcls[mth[t].cls].instance = Null THEN "new" ELSE "return"]
    /\ UNCHANGED <<mcls, restOfManagers>>

\* cls._instance = super().__new__(cls)
NewInstance(t) ==
    /\ mth[t].pc = "new"
    /\ LET c == mth[t].cls
       IN  mcls' = [mcls EXCEPT ![c].created = @ + 1,
                                ![c].instance = mcls[c].created + 1]
    /\ mth' = [mth EXCEPT ![t].pc = "fetch"]
    /\ UNCHANGED restOfManagers

\* cls._instance._initialize(): the class attribute is read again and
\* _initialize starts on the object it holds.
BeginInitialize(t) ==
    /\ mth[t].pc = "fetch"
    /\ mth' = [mth EXCEPT ![t].pc = "initialize", ![t].obj = mcls[mth[t].cls].instance]
    /\ UNCHANGED <<mcls, restOfManagers>>

\* _initialize ends: the engine and SessionLocal (the driver) are set, or an
\* exception leaves __new__ with _instance still assigned.
EndInitialize(t) ==
    /\ mth[t].pc = "initialize"
    /\ \E outcome \in InitializeOutcomes :
        IF outcome = "completed"
        THEN /\ mcls' = [mcls EXCEPT ![mth[t].cls].initialized = @ \cup {mth[t].obj}]
             /\ mth' = [mth EXCEPT ![t].pc = "return"]
        ELSE /\ mth' = [mth EXCEPT ![t].pc = "idle"]
             /\ UNCHANGED mcls
    /\ UNCHANGED restOfManagers

\* return cls._instance; the class remembers every object it handed out and
\* whether its _initialize had completed by then.
ReturnInstance(t) ==
    /\ mth[t].pc = "return"
    /\ LET c == mth[t].cls
           obj == mcls[c].instance
       IN  mcls' = [mcls EXCEPT ![c].returned =
                        @ \cup {[obj |-> obj, complete |-> obj \in mcls[c].initialized]}]
    /\ mth' = [mth EXCEPT ![t].pc = "idle"]
    /\ UNCHANGED restOfManagers

NextManagers ==
    \E t \in Threads :
        \/ ManagerCall(t)
        \/ TestInstance(t)
        \/ NewInstance(t)
        \/ BeginInitialize(t)
        \/ EndInitialize(t)
        \/ ReturnInstance(t)

Init ==
    InitValidator \/ InitScorer \/ InitCredibility \/ InitPipelines
    \/ InitAcquisition \/ InitWrapper \/ InitBackoff \/ InitWriter \/ InitFiles
    \/ InitIngestor \/ InitOrchestrator \/ InitManagers
Next ==
    NextValidator \/ NextScorer \/ NextCredibility \/ NextPipelines
    \/ NextAcquisition \/ NextWrapper \/ NextBackoff \/ NextWriter \/ NextFiles
    \/ NextIngestor \/ NextOrchestrator \/ NextManagers

\* Each component alone, and all of them.
SpecValidator == InitValidator /\ [][NextValidator]_vars
SpecScorer == InitScorer /\ [][NextScorer]_vars
SpecCredibility == InitCredibility /\ [][NextCredibility]_vars
SpecPipelines == InitPipelines /\ [][NextPipelines]_vars
SpecAcquisition == InitAcquisition /\ [][NextAcquisition]_vars
SpecWrapper == InitWrapper /\ [][NextWrapper]_vars
\* The wrapper is one thread of control: a step that can be taken is taken.
SpecBackoff == InitBackoff /\ [][NextBackoff]_vars /\ WF_vars(NextBackoff)
SpecWriter == InitWriter /\ [][NextWriter]_vars
SpecFiles == InitFiles /\ [][NextFiles]_vars
SpecIngestor == InitIngestor /\ [][NextIngestor]_vars
SpecOrchestrator == InitOrchestrator /\ [][NextOrchestrator]_vars
SpecManagers == InitManagers /\ [][NextManagers]_vars
Spec == Init /\ [][Next]_vars

\* ------------------------------------------------------------------------
\* Claims about the validator
\* ------------------------------------------------------------------------

ArgS == ToArray(vargs.S)
ArgSigma == ToArray(vargs.sigma)
ArgT == ToArray(vargs.T)
ArgKappa == ToArray(vargs.kappa)

ReturnedNonStrict == vout.op = "validate" /\ ~vout.strict /\ vout.raised = "none"

\* The hard constraints on element i, read off the arguments and the
\* figure of merit zT.
Admissible(zT, i) ==
    /\ FGreater0(ArgT[i])
    /\ FGreater0(ArgSigma[i])
    /\ FGreater0(ArgKappa[i])
    /\ FGreaterEqual0(zT[i])
    /\ ~IsNaN(zT[i])

HasNaNInput(i) ==
    IsNaN(ArgT[i]) \/ IsNaN(ArgS[i]) \/ IsNaN(ArgSigma[i]) \/ IsNaN(ArgKappa[i])

\* C1: after validate(strict=False) returns, is_valid[i] is True exactly
\* when T[i] > 0, sigma[i] > 0, kappa[i] > 0, zT[i] >= 0 and zT[i] is not
\* NaN, and it is False for every element with a NaN among T, S, sigma,
\* kappa, whatever the masked comparisons left at the masked positions.
C1_ValidIffConstraints ==
    ReturnedNonStrict =>
        /\ Len(vout.is_valid) = Len(ArgT)
        /\ \A i \in 1..Len(ArgT) :
            /\ vout.is_valid[i] <=> Admissible(vout.zT, i)
            /\ HasNaNInput(i) => ~vout.is_valid[i]

\* A non-strict call that returned a NaN element (flagged False) next to an
\* admissible one (flagged True).
C1_Witness ==
    /\ ReturnedNonStrict
    /\ \E i, j \in 1..Len(ArgT) :
        /\ HasNaNInput(i) /\ ~vout.is_valid[i]
        /\ ~HasNaNInput(j) /\ vout.is_valid[j]

\* The elements of the call that violate a hard constraint.
InvalidElements ==
    LET zT == ComputeZt(vargs).zT
    IN  {i \in 1..Len(ArgT) : ~Admissible(zT, i)}

FLess0(x) == x.k # "nan" /\ x.n < 0
FLessEqual0(x) == x.k # "nan" /\ x.n <= 0

PastShapeGate == vout.op = "validate" /\ vout.raised # "ValueError"

\* C2: a validate(strict=True) call on arrays that pass the shape gate
\* raises PhysicalConstraintError, returning no state, exactly when some
\* element is invalid (kappa <= 0 or T < 0 in any element is enough); the
\* error carries the number of invalid elements; and when every element is
\* valid the call returns the state validate(strict=False) returns.
C2_StrictRaisesWithCount ==
    (PastShapeGate /\ vout.strict) =>
        /\ (InvalidElements # {}) <=> (vout.raised = "PhysicalConstraintError")
        /\ (\E i \in 1..Len(ArgT) : FLessEqual0(ArgKappa[i]) \/ FLess0(ArgT[i]))
            => vout.raised = "PhysicalConstraintError"
        /\ vout.raised = "PhysicalConstraintError" =>
            /\ vout.violations = Cardinality(InvalidElements)
            /\ vout.is_valid = <<>> /\ vout.zT = <<>> /\ vout.zT_err = <<>>
        /\ vout.raised = "none" =>
            \A g \in Garbage(vargs) :
                Validate(vargs, FALSE, g) = [vout EXCEPT !.strict = FALSE]

\* A strict call that raised with two violations, one of them kappa <= 0.
C2_Witness ==
    /\ PastShapeGate /\ vout.strict
    /\ vout.raised = "PhysicalConstraintError"
    /\ vout.violations = 2
    /\ \E i \in 1..Len(ArgKappa) : ArgKappa[i] = F(-1)

\* The shapes of the arrays a call supplies: the four observables and every
\* uncertainty passed as an array.
SuppliedShapes ==
    {Len(ArgS), Len(ArgSigma), Len(ArgT), Len(ArgKappa)}
    \cup {Len(e.data.a) : e \in {x \in {vargs.err_S, vargs.err_sigma,
                                        vargs.err_T, vargs.err_kappa} :
                                   x.given /\ ~x.data.scalar}}

\* C3: compute_zt, and validate through it, raises the shape-mismatch error
\* whenever two of the supplied arrays (S, sigma, T, kappa and the supplied
\* uncertainty arrays) differ in shape; nothing is broadcast.
C3_ShapeMismatchRaises ==
    (vout.op # "none" /\ Cardinality(SuppliedShapes) > 1)
        => vout.raised = "ValueError"

\* The observables of a mismatching call raise; the check is there for them.
C3_ObservablesChecked ==
    (vout.op # "none"
     /\ Cardinality({Len(ArgS), Len(ArgSigma), Len(ArgT), Len(ArgKappa)}) > 1)
        => vout.raised = "ValueError"

\* C4: compute_zt does not raise on kappa = 0; every element with kappa = 0
\* has the NaN marker as its zT and as its zT_err, and validate(strict=False)
\* flags each such element invalid without raising.
C4_KappaZeroYieldsNaN ==
    /\ (vout.op = "compute_zt" /\ vout.raised = "none") =>
        \A i \in 1..Len(ArgKappa) : FIsZero(ArgKappa[i]) =>
            /\ IsNaN(vout.zT[i])
            /\ i <= Len(vout.zT_err) /\ IsNaN(vout.zT_err[i])
    /\ ReturnedNonStrict =>
        \A i \in 1..Len(ArgKappa) : FIsZero(ArgKappa[i]) => ~vout.is_valid[i]

\* C5: validate(strict=False) returns, in every array of its state, exactly
\* one entry per input measurement, in input order, with T, S, sigma and
\* kappa equal to the inputs.
C5_OneEntryPerMeasurement ==
    ReturnedNonStrict =>
        /\ vout.T = ArgT /\ vout.S = ArgS
        /\ vout.sigma = ArgSigma /\ vout.kappa = ArgKappa
        /\ Len(vout.zT) = Len(ArgT)
        /\ Len(vout.zT_err) = Len(ArgT)
        /\ Len(vout.is_valid) = Len(ArgT)

\* ------------------------------------------------------------------------
\* Claims about the quality vector and the quality scorer
\* ------------------------------------------------------------------------

ScoringOps ==
    {"score_linear", "score_multiplicative",
     "score_entropy_regularized", "score_risk_adjusted"}

\* Every component is a number in [0, 1].
InRange(c) ==
    \A i \in 1..Len(c) : ~IsNaN(c[i]) /\ FGe(c[i], F(0)) /\ FLe(c[i], F(1))

\* The weight vector a construction is asked for.
AskedWeights == IF sin.weights.given THEN sin.weights.data ELSE DEFAULT_WEIGHTS

NonNegative(w) == \A i \in 1..Len(w) : FGe(w[i], F(0))

\* The scoring arithmetic stays within the number forms it is computed in.
ScoreDecided ==
    (sout.op \in ScoringOps /\ sout.raised = "none") => sout.value.k # "undecided"

\* C6: for each of score_linear, score_multiplicative,
\* score_entropy_regularized and score_risk_adjusted, a call with gate=False
\* returns exactly 0.0, whatever the quality vector(s) and whatever the value
\* of lambda_reg or gamma.
C6_GateFalseReturnsZero ==
    (sout.op \in ScoringOps /\ ~sout.gate)
        => (sout.raised = "none" /\ sout.value = F(0))

\* A gate=False call with gamma = NaN on a vector that to_numpy rejects.
C6_Witness ==
    /\ sout.op = "score_risk_adjusted" /\ ~sout.gate
    /\ IsNaN(sout.param)
    /\ qobj[1].exists /\ ~InRange(qobj[1].q)
    /\ sout.raised = "none" /\ sout.value = F(0)

\* C7: constructing a QualityVector with a component that is NaN or outside
\* [0, 1] raises at construction time, so that no QualityVector object holds
\* such a component and none reaches a scoring or dominance operation.
C7_NoInvalidVectorExists ==
    /\ \A j \in {1, 2} : qobj[j].exists => InRange(qobj[j].q)
    /\ (sout.op = "QualityVector" /\ (~InRange(sin.c1) \/ ~InRange(sin.c2)))
            => \E j \in {1, 2} : ~qobj[j].exists

\* C8: QualityScorer construction succeeds if and only if the weight vector
\* has exactly 6 elements and its sum differs from 1.0 by at most 1e-6; in
\* every other case it raises QualityScoreError.
C8_ConstructIffNormalized ==
    sout.op = "QualityScorer" =>
        /\ sout.raised \in {"none", "QualityScoreError"}
        /\ sout.raised = "none" <=>
                /\ Len(AskedWeights) = NComponents
                /\ FLe(FAbs(FSub(FSum(AskedWeights), F(1))), ATol)

\* The part of C8 the constructor does keep: a wrong length, a sum of 0.95
\* and a sum off by more than 1.1e-5 raise.
C8_FarOffRaises ==
    (sout.op = "QualityScorer" /\ sout.raised = "none") =>
        /\ Len(AskedWeights) = NComponents
        /\ FLe(FAbs(FSub(FSum(AskedWeights), F(1))), FAdd(ATol, RTol))

\* C9: in every state of a constructed QualityScorer its weight vector has
\* exactly 6 weights, each non-negative, and equals the vector given at
\* construction; no scoring, classify or pareto_dominates call changes it.
C9_WeightsNonNegativeFixed ==
    scorer.exists =>
        /\ Len(scorer.weights) = NComponents
        /\ NonNegative(scorer.weights)
        /\ scorer.weights = AskedWeights

\* The part of C9 that holds: six weights, those given, never changed.
C9_WeightsAsGiven ==
    scorer.exists =>
        /\ Len(scorer.weights) = NComponents
        /\ scorer.weights = AskedWeights

\* A multiplicative score returned for a vector of components in [0, 1]
\* by a scorer without negative weights.
MultiplicativeReturned ==
    /\ sout.op = "score_multiplicative" /\ sout.gate
    /\ scorer.exists /\ NonNegative(scorer.weights)
    /\ qobj[1].exists /\ InRange(qobj[1].q)

\* C10 as claimed, read on the scorers without negative weights:
\* score_multiplicative with gate=True returns exactly 0.0 for every valid
\* quality vector that has at least one component equal to 0.
C10_ZeroComponentCollapses ==
    (MultiplicativeReturned /\ \E i \in 1..NComponents : FIsZero(qobj[1].q[i]))
        => (sout.raised = "none" /\ sout.value = F(0))

\* C10, amended: score_multiplicative with gate=True returns exactly 0.0 for
\* every valid quality vector in which some component equal to 0 has a
\* strictly positive weight, for every accepted weight vector without
\* negative weights.
C10_ZeroPositiveWeightCollapses ==
    (MultiplicativeReturned
     /\ \E i \in 1..NComponents :
            FIsZero(qobj[1].q[i]) /\ FGt(scorer.weights[i], F(0)))
        => (sout.raised = "none" /\ sout.value = F(0))

\* One zero component of positive weight among non-zero components, some of
\* weight 0, and the score is 0.
C10_Witness ==
    /\ MultiplicativeReturned
    /\ \E i \in 1..NComponents :
            FIsZero(qobj[1].q[i]) /\ FGt(scorer.weights[i], F(0))
    /\ \E i \in 1..NComponents : ~FIsZero(qobj[1].q[i])
    /\ \E i \in 1..NComponents : FIsZero(scorer.weights[i])
    /\ sout.raised = "none" /\ sout.value = F(0)

\* A returned score, of any of the number forms, lies in [0, 1].
InUnit(v) ==
    IF v.k = "fin" THEN FGe(v, F(0)) /\ FLe(v, F(1))
    ELSE IF v.k = "pow2" THEN v.n <= 0
    ELSE v.k \in {"a-c*ln2", "a-g*sqrt(v)"}

\* A scorer whose weights are non-negative and sum to 1.0 within 1e-6.
NormalizedScorer ==
    /\ scorer.exists /\ NonNegative(scorer.weights)
    /\ FLe(FAbs(FSub(FSum(scorer.weights), F(1))), ATol)

\* C11, read on the scorers with non-negative weights summing to 1.0 within
\* 1e-6 and on numeric lambda_reg and gamma: for every quality vector with
\* all components in [0, 1] and either gate value, each of the four scoring
\* strategies returns a value in [0, 1].
C11_ScoreInUnitInterval ==
    (/\ sout.op \in ScoringOps
     /\ NormalizedScorer
     /\ ~IsNaN(sout.param)
     /\ qobj[1].exists /\ InRange(qobj[1].q)
     /\ sout.op = "score_risk_adjusted" => InRange(qobj[2].q))
        => (sout.raised = "none" /\ InUnit(sout.value))

\* The strategies that clip, and the multiplicative one on non-negative
\* weights, do stay in [0, 1].
C11_ClippedInUnitInterval ==
    (/\ sout.op \in ScoringOps \ {"score_linear"}
     /\ scorer.exists /\ NonNegative(scorer.weights)
     /\ ~IsNaN(sout.param)
     /\ sout.raised = "none")
        => InUnit(sout.value)

\* The order of the quality classes, lowest first.
ClassRank(cls) ==
    IF cls = "Class A" THEN 4
    ELSE IF cls = "Class B" THEN 3
    ELSE IF cls = "Class C" THEN 2
    ELSE IF cls = "Class D" THEN 1
    ELSE 0

\* The class the fixed thresholds give a score (NaN compares False).
ThresholdClass(x) ==
    IF ~IsNaN(x) /\ FGe(x, Rat(9, 10)) THEN "Class A"
    ELSE IF ~IsNaN(x) /\ FGe(x, Rat(4, 5)) /\ FLt(x, Rat(9, 10)) THEN "Class B"
    ELSE IF ~IsNaN(x) /\ FGe(x, Rat(13, 20)) /\ FLt(x, Rat(4, 5)) THEN "Class C"
    ELSE IF ~IsNaN(x) /\ FGe(x, Rat(1, 2)) /\ FLt(x, Rat(13, 20)) THEN "Class D"
    ELSE "Reject"

ClassifiedByThresholds ==
    /\ sout.op = "classify" => sout.cls = ThresholdClass(sout.param)
    /\ (sout.op \in ScoringOps /\ ~sout.gate /\ sout.raised = "none")
            => Classify(sout.value) = "Reject"

ClassifyMonotone ==
    (sout.op = "classify" /\ sout'.op = "classify" /\ FGe(sout'.param, sout.param))
        => ClassRank(sout'.cls) >= ClassRank(sout.cls)

\* C12: classify is total and follows the fixed thresholds (A from 0.90,
\* B from 0.80, C from 0.65, D from 0.50, Reject otherwise); of two
\* classified scores the higher never gets the lower class; and the 0.0 a
\* strategy returns for gate=False is classified Reject.
C12_ClassifyThresholds == []ClassifiedByThresholds /\ [][ClassifyMonotone]_vars

\* A score exactly on a threshold gets the class that starts there.
C12_Witness ==
    /\ sout.op = "classify"
    /\ sout.param = Rat(13, 20)
    /\ sout.cls = "Class C"

\* The two vectors of the last pareto_dominates call.
ParetoFirst == qobj[sout.args[1]].q
ParetoSecond == qobj[sout.args[2]].q

ParetoReturned == sout.op = "pareto_dominates" /\ sout.raised = "none"

\* C13: pareto_dominates(q1, q2), where it returns, is True if and only if
\* q1 >= q2 in all six components and q1 > q2 in at least one; it is never
\* True of a vector and itself, and never True in both orders.
C13_ParetoStrictOrder ==
    /\ ParetoReturned =>
        (sout.flag <=>
            /\ \A i \in 1..NComponents : FGe(ParetoFirst[i], ParetoSecond[i])
            /\ \E i \in 1..NComponents : FGt(ParetoFirst[i], ParetoSecond[i]))
    /\ (sout.op = "pareto_dominates" /\ ParetoFirst = ParetoSecond) => ~sout.flag
    /\ (sout.op = "pareto_dominates" /\ sout.flag) =>
            ~ParetoDominates(qobj[sout.args[2]], qobj[sout.args[1]]).flag

\* A vector that dominates another, and a vector compared with itself.
C13_Witness ==
    /\ ParetoReturned
    /\ \/ sout.flag /\ sout.args = <<1, 2>>
       \/ ~sout.flag /\ sout.args = <<1, 1>>
    /\ \E i \in 1..NComponents : FGt(ParetoFirst[i], F(0))

\* ------------------------------------------------------------------------
\* Claims about the credibility score
\* ------------------------------------------------------------------------

CredibilityCalled == cout.op = "calculate_credibility"

\* The arguments the function is meant to reject.
CredibilityRejects ==
    \/ ~(FGe(cin.w_source, F(0)) /\ FLe(cin.w_source, F(1)))
    \/ cin.w_unc \notin {F(0), Rat(1, 2), F(1)}
    \/ cin.n < 0

\* One of the factors named as zero.
HasZeroFactor ==
    FIsZero(cin.w_source) \/ FIsZero(cin.w_unc) \/ cin.n_rep < 1 \/ cin.n = 0

\* C14: for every input, calculate_credibility either raises
\* CredibilityScoreError (w_source outside [0, 1], w_unc not one of 0, 0.5,
\* 1.0, or n < 0) or returns a score in [0, 1] that is exactly 0.0 whenever
\* one of its factors is zero; it never fails with an error of another kind.
C14_RaisesOrReturnsBounded ==
    CredibilityCalled =>
        \/ cout.raised = "CredibilityScoreError" /\ CredibilityRejects
        \/ /\ cout.raised = "none" /\ ~CredibilityRejects
           /\ cout.value = F(0) \/ cout.value = F(1) \/ cout.value.k = "in(0,1]"
           /\ HasZeroFactor => cout.value = F(0)

\* The part of C14 that holds: the three argument checks, and the bounds
\* and zeros of every score that is returned.
C14_ReturnedIsBounded ==
    CredibilityCalled =>
        /\ CredibilityRejects <=> cout.raised = "CredibilityScoreError"
        /\ cout.raised = "none" =>
            /\ cout.value = F(0) \/ cout.value = F(1) \/ cout.value.k = "in(0,1]"
            /\ HasZeroFactor => cout.value = F(0)

\* ------------------------------------------------------------------------
\* Claims about gap detection and ranking
\* ------------------------------------------------------------------------

\* bounds and ids partition the rows [0, N) by key.
Partitions(bounds, ids, rows) ==
    /\ Len(bounds) = Len(ids)
    /\ Len(bounds) >= 1
    /\ bounds[1][1] = 0
    /\ bounds[Len(bounds)][2] = Len(rows)
    /\ \A k \in 1..(Len(bounds) - 1) : bounds[k][2] = bounds[k + 1][1]
    /\ \A k \in 1..Len(bounds) :
        /\ bounds[k][1] < bounds[k][2]
        /\ \A i \in (bounds[k][1] + 1)..bounds[k][2] : rows[i] = ids[k]
    /\ \A k \in 1..Len(ids), l \in 1..Len(ids) : ids[k] = ids[l] => k = l

\* A call that got as far as grouping the rows.
Grouped == prun.op # "none" /\ "backend" \in {prun.log[i] : i \in 1..Len(prun.log)}
GroupedForRanking == prun.op = "update_all_ranks" /\ prun.pc = "backend"

HasNull(rows) == \E i \in 1..Len(rows) : rows[i] = Null

\* C15: for any non-empty row sequence sorted by key that the queries can
\* return (a NULL material_id included), the single-pass grouping of
\* GapDetector and of MaterialRanker yields index ranges that partition
\* [0, N): contiguous from 0 to N, non-empty, one key per range, ids
\* pairwise distinct and aligned with the ranges.
C15_GroupingPartitions ==
    (Grouped \/ GroupedForRanking)
        => Partitions(prun.bounds, prun.material_ids, penv.rows)

\* The grouping of MaterialRanker does partition, and that of GapDetector
\* does on rows without a NULL material_id.
C15_PartitionsExceptNull ==
    ((Grouped \/ GroupedForRanking)
     /\ (prun.op = "update_all_ranks" \/ ~HasNull(penv.rows)))
        => Partitions(prun.bounds, prun.material_ids, penv.rows)

GapsReturned == prun.op = "detect_and_rank_gaps" /\ prun.raised = "none"

\* The place of a material in the partition.
PartitionIndex(id) == CHOOSE i \in 1..Len(prun.material_ids) : prun.material_ids[i] = id

\* C16: detect_and_rank_gaps returns exactly one entry per manifold of the
\* partition, each with that manifold's id and the entropy, kl_divergence
\* and gap_score the backend returned for it, ordered by gap_score
\* descending; entries of equal gap_score keep their partition order.
C16_RankedByGapScore ==
    GapsReturned =>
        /\ Len(prun.ranked) = Len(prun.material_ids)
        /\ Len(prun.ranked) = Len(prun.bounds)
        /\ \A i \in 1..Len(prun.material_ids) :
            \E a \in 1..Len(prun.ranked) :
                /\ prun.ranked[a] =
                        GapEntry(prun.material_ids[i], GapResultOf(penv.ffi.results[i]))
                /\ \A b \in 1..Len(prun.ranked) :
                        prun.ranked[b].material_id = prun.material_ids[i] => b = a
        /\ \A a \in 1..Len(prun.ranked), b \in 1..Len(prun.ranked) :
            a < b =>
                /\ prun.ranked[a].gap_score >= prun.ranked[b].gap_score
                /\ prun.ranked[a].gap_score = prun.ranked[b].gap_score
                    => PartitionIndex(prun.ranked[a].material_id)
                            < PartitionIndex(prun.ranked[b].material_id)

\* Three manifolds, the first with the lowest score and the others tied.
C16_Witness ==
    /\ GapsReturned
    /\ Len(prun.ranked) = 3
    /\ prun.ranked[1].gap_score = prun.ranked[2].gap_score
    /\ prun.ranked[3].gap_score < prun.ranked[2].gap_score
    /\ prun.ranked[3].material_id = prun.material_ids[1]

\* The backend answered with a list of another length than the manifolds.
Called(what) == \E i \in 1..Len(prun.log) : prun.log[i] = what

LengthMismatch ==
    /\ Called("backend")
    /\ ~penv.ffi.raises
    /\ Len(penv.ffi.results) # Len(prun.material_ids)

\* C18: when the backend returns a result list whose length differs from
\* the number of manifolds, detect_and_rank_gaps raises
\* FFISynchronizationError and update_all_ranks raises
\* PipelineRankingError; no partial ranking is returned and update_all_ranks
\* never calls the bulk writer.
C18_LengthMismatchIsFatal ==
    /\ (prun.op = "detect_and_rank_gaps" /\ LengthMismatch)
            => (prun.raised = "FFISynchronizationError" /\ prun.ranked = <<>>)
    /\ (prun.op = "update_all_ranks" /\ prun.pc = "done" /\ LengthMismatch)
            => /\ prun.raised = "PipelineRankingError"
               /\ prun.count = -1
               /\ ~Called("writer")
               /\ prun.pg_data = <<>> /\ prun.graph_data = <<>>

\* update_all_ranks ended on a backend answer one entry short.
C18_Witness ==
    /\ prun.op = "update_all_ranks" /\ prun.pc = "done"
    /\ LengthMismatch
    /\ Len(prun.material_ids) = 2 /\ Len(penv.ffi.results) = 1
    /\ prun.raised = "PipelineRankingError"

\* The distinct material_id values of the rows.
Materials == {penv.rows[i] : i \in 1..Len(penv.rows)}

RanksUpdated == prun.op = "update_all_ranks" /\ prun.pc = "done" /\ prun.raised = "none"

UpdateAllRanksOutcome ==
    RanksUpdated =>
        IF penv.rows = <<>>
        THEN prun.count = 0 /\ prun.log = <<"query">>
        ELSE /\ prun.log = <<"query", "backend", "writer">>
             /\ Len(prun.results) = Len(prun.material_ids)
             /\ Len(prun.pg_data) = Cardinality(Materials)
             /\ Len(prun.graph_data) = Cardinality(Materials)
             /\ {prun.graph_data[i].material_uuid : i \in 1..Len(prun.graph_data)}
                    = Materials
             /\ \A i \in 1..Len(prun.pg_data) :
                    /\ prun.pg_data[i][2] = prun.graph_data[i].material_uuid
                    /\ prun.pg_data[i][1] = prun.graph_data[i].rank
                    /\ prun.pg_data[i][1] = penv.ffi.results[i]
             /\ prun.count = Cardinality(Materials)

\* The writer is called by a step that starts after the backend call, on
\* an answer of the right length, and not twice.
WriterCalledAfterCheck ==
    Called("writer")' =>
        \/ /\ ~Called("writer")
           /\ prun.pc = "check" /\ Called("backend")
           /\ Len(prun.results) = Len(prun.material_ids)
        \/ prun' = prun

\* C20: on success update_all_ranks calls the bulk writer exactly once,
\* only after the backend call and the length check have succeeded, with
\* one entry per distinct material in pg_data and one in graph_data, the
\* i-th entries of both naming the same material and the same rank, and
\* returns that number of materials; when the query returns no rows it
\* returns 0 and calls neither the backend nor the writer.
C20_WritesOnceAfterCheck == []UpdateAllRanksOutcome /\ [][WriterCalledAfterCheck]_vars

\* A ranking of two materials written and counted.
C20_Witness ==
    /\ RanksUpdated
    /\ prun.count = 2
    /\ prun.log = <<"query", "backend", "writer">>
    /\ Len(prun.pg_data) = 2

\* ------------------------------------------------------------------------
\* Claims about the acquisition target
\* ------------------------------------------------------------------------

TargetComputed == hout.op = "optimal_acquisition_bin"

\* The 0-based indices of the empty bins.
EmptyBins == {b \in 0..(Len(hout.hist) - 1) : hout.hist[b + 1] = 0}

\* C17: for any histogram over K bins with total count N > 0 in which
\* exactly one bin is empty and every other bin is non-empty, the argmin
\* over the bins k of ln(max(p_k, eps) / u_k) / N is the index of the empty
\* bin (bin 5 for 7 bins over [300, 1000) with [800, 900) empty).
C17_ArgminIsEmptyBin ==
    (TargetComputed /\ hout.N > 0 /\ Cardinality(EmptyBins) = 1)
        => hout.optimal_acquisition_bin \in EmptyBins

\* Seven bins over [300, 1000), nothing in [800, 900), the target is bin 5.
C17_Witness ==
    /\ TargetComputed
    /\ hin.dom = [t_min |-> 300, t_max |-> 1000, num_bins |-> 7]
    /\ \A i \in 1..Len(hin.t_array) : hin.t_array[i] < 800 \/ hin.t_array[i] >= 900
    /\ EmptyBins = {5}
    /\ hout.optimal_acquisition_bin = 5

\* ------------------------------------------------------------------------
\* Claims about the RustCore wrapper
\* ------------------------------------------------------------------------

GuardedWrappers ==
    {"validate_dimensions", "check_physics_consistency", "propagate_error",
     "compute_quality_score"}

\* The last wrapper call reached the backend and the backend raised.
BackendFailed == wout.backend \notin {"not called", "ok"}

\* C19: every failure raised by the accelerated backend during a RustCore
\* wrapper call (validate_dimensions, check_physics_consistency,
\* propagate_error, compute_quality_score), whatever its exception type,
\* reaches the caller as a RustCoreError and never as the backend's raw
\* exception.
C19_BackendFailureIsRustCoreError ==
    (wout.op \in GuardedWrappers /\ BackendFailed) => wout.raised = "RustCoreError"

\* ------------------------------------------------------------------------
\* Claims about reproducibility
\* ------------------------------------------------------------------------

ValidateCalled == vout.op = "validate"

FirstFinal ==
    LET final == {i \in 1..(benv.max_retries + 1) :
                    benv.script[i] \notin TransientErrors}
    IN  IF final = {} THEN 0
        ELSE CHOOSE i \in final : \A j \in final : i <= j

BackoffDone == brun.pc = "done"

BackoffBounded ==
    /\ brun.calls <= benv.max_retries + 1
    /\ BackoffDone =>
        IF FirstFinal = 0
        THEN /\ brun.raised = "ConnectionTimeoutError" /\ brun.returned = "none"
             /\ brun.calls = benv.max_retries + 1
             /\ brun.sleeps = benv.max_retries
        ELSE /\ brun.calls = FirstFinal
             /\ brun.sleeps = FirstFinal - 1
             /\ IF benv.script[FirstFinal] = "ok"
                THEN brun.returned = "ok" /\ brun.raised = "none"
                ELSE brun.raised = benv.script[FirstFinal] /\ brun.returned = "none"

\* C22: one call to a function wrapped by with_exponential_backoff with
\* max_retries = m >= 0 invokes the function at most m + 1 times and always
\* terminates: it returns the first successful result without further
\* invocations, re-invokes only after OperationalError, ServiceUnavailable or
\* TransientError, lets any other exception propagate at once, and after
\* m + 1 consecutive transient failures raises ConnectionTimeoutError having
\* slept exactly m times.
C22_BackoffBoundedAndTerminates == []BackoffBounded /\ <>BackoffDone

\* Three transient failures in a row with max_retries = 2: two sleeps, then
\* ConnectionTimeoutError.
C22_Witness ==
    /\ BackoffDone
    /\ benv.max_retries = 2
    /\ brun.raised = "ConnectionTimeoutError"
    /\ brun.calls = 3 /\ brun.sleeps = 2

\* ------------------------------------------------------------------------
\* Claims about the bulk writers
\* ------------------------------------------------------------------------

WriteDone == urun.pc = "done"

PgFailed == uenv.materials_data # <<>> /\ uenv.pg # "ok"

GraphFailed == uenv.graph_data # <<>> /\ uenv.graph # "ok"

Neo4jStarted == \E i \in 1..Len(urun.events) : urun.events[i] = "neo4j_call"

\* C23: write_canonical_materials writes PostgreSQL first and Neo4j second:
\* if the PostgreSQL batch fails its error propagates and the Neo4j write is
\* never attempted; if the Neo4j write fails after the PostgreSQL commit it
\* raises CrossSystemConsistencyError; the Neo4j write never starts before
\* the PostgreSQL write has returned.
C23_PostgresFirstThenNeo4j ==
    /\ Neo4jStarted =>
        /\ Len(urun.events) >= 3
        /\ urun.events[1] = "pg_call" /\ urun.events[2] = "pg_return"
        /\ urun.events[3] = "neo4j_call"
    /\ (WriteDone /\ PgFailed) =>
        /\ urun.raised \in {"PostgresBulkInsertError", "PoolError"}
        /\ ~Neo4jStarted
        /\ urun.uuid_neo4j = {}
    /\ (WriteDone /\ ~PgFailed /\ GraphFailed) =>
        urun.raised = "CrossSystemConsistencyError"
    /\ (WriteDone /\ ~PgFailed /\ ~GraphFailed) => urun.raised = "none"

\* PostgreSQL committed a batch and the Neo4j write then failed.
C23_Witness ==
    /\ WriteDone
    /\ urun.uuid_pg # {}
    /\ GraphFailed
    /\ urun.raised = "CrossSystemConsistencyError"

\* C24: whenever write_canonical_materials returns normally, the set of
\* material UUIDs committed to PostgreSQL by the call equals the set of
\* material UUIDs written to Neo4j by the call, for any materials_data and
\* graph_data, including an empty list on either side.
C24_SameUuidsInBothStores ==
    (WriteDone /\ urun.raised = "none") => urun.uuid_pg = urun.uuid_neo4j

\* ------------------------------------------------------------------------
\* Claims about file I/O
\* ------------------------------------------------------------------------

WriterThreads == {t \in Threads : fenv.call[t].op \in Writers}

ReaderThreads == {t \in Threads : fenv.call[t].op \in Readers}

CallDone(t) == fth[t].pc = "done"

\* The file the path named before any call.
InitialDest == IF fenv.exists THEN "old" ELSE "none"

InSection ==
    {t \in Threads :
        /\ fenv.call[t].op \in LockedWriters \cup Readers
        /\ fth[t].pc \in {"write", "replace", "cleanup", "open", "read", "release"}}

CompleteContents == {Content(w) : w \in Threads \cup {"old"}}

\* C26: under any interleaving of concurrent threads, _get_file_lock returns
\* the same lock object for the same resolved path, so at most one thread at
\* a time is inside the write or read section of the io functions for a
\* given path, and a reader of a path that is being rewritten sees either
\* the complete previous content or the complete new content, never a
\* partial file.
C26_OneLockPerPath ==
    /\ \A t, u \in Threads :
        (fth[t].lock # 0 /\ fth[u].lock # 0) => fth[t].lock = fth[u].lock
    /\ Cardinality(InSection) <= 1
    /\ \A t \in ReaderThreads :
        (CallDone(t) /\ fth[t].raised = "none") => fth[t].seen \in CompleteContents

\* A reader that ran against a writer of the same path and read the
\* writer's complete content.
C26_Witness ==
    \E t \in ReaderThreads, u \in Threads :
        /\ t # u
        /\ CallDone(t) /\ CallDone(u)
        /\ fenv.call[u].op \in LockedWriters
        /\ fth[t].lock # 0 /\ fth[t].lock = fth[u].lock
        /\ fth[t].seen = Content(u)

\* ------------------------------------------------------------------------
\* Claims about ingestion
\* ------------------------------------------------------------------------

\* T > 0, sigma > 0, kappa > 0, the four uncertainties >= 0, none NaN.
Admitted(e) ==
    /\ FGreater0(e.T) /\ FGreater0(e.sigma) /\ FGreater0(e.kappa)
    /\ ~IsNaN(e.S)
    /\ \A u \in {e.sigma_T, e.sigma_S, e.sigma_sigma, e.sigma_kappa} :
            FGreaterEqual0(u)

\* validate on the quantities of one entity.
ValidOf(e) ==
    LET a == ArgsOf(<<[T |-> e.T, S |-> e.S, sigma |-> e.sigma, kappa |-> e.kappa]>>,
                    "none", None, None)
    IN  \A g \in Garbage(a) : Validate(a, FALSE, g).is_valid = <<TRUE>>

\* The record has all its values, they convert to floats, and one of them
\* violates a constraint.
Violating(record) ==
    /\ \A f \in FieldSet : record[f].kind \in {"float", "str"} /\ ParsesAsFloat(record[f])
    /\ ~Admitted([T |-> ToFloat(record.T), S |-> ToFloat(record.S),
                  sigma |-> ToFloat(record.sigma), kappa |-> ToFloat(record.kappa),
                  sigma_T |-> ToFloat(record.u_T), sigma_S |-> ToFloat(record.u_S),
                  sigma_sigma |-> ToFloat(record.u_sigma),
                  sigma_kappa |-> ToFloat(record.u_kappa)])

\* C27: every RawMeasurement returned by ingest_record or contained in the
\* list returned by ingest_dataframe has T > 0, sigma > 0, kappa > 0 and all
\* four uncertainties >= 0, none of them NaN, for any record values the
\* caller supplies; consequently validate on its quantities gives
\* is_valid = True; a record violating any of these raises a
\* ThermognosisError, and ingest_dataframe then returns no partial list.
C27_IngestedAreAdmissible ==
    /\ \A i \in 1..Len(iout.entities) :
            Admitted(iout.entities[i]) /\ ValidOf(iout.entities[i])
    /\ (iout.op = "ingest_record" /\ Violating(iin.record)) =>
            iout.raised \in ThermognosisErrors
    /\ (iout.op = "ingest_dataframe" /\ \E i \in 1..Len(iin.df) : Violating(iin.df[i])) =>
            iout.raised \in ThermognosisErrors /\ iout.entities = <<>>

\* ------------------------------------------------------------------------
\* Claims about the orchestrator
\* ------------------------------------------------------------------------

PipelineReturned == orun.pc = "returned"

CountsBalance(r) ==
    /\ r.total_processed = r.total_failed + r.physics_violations + r.total_inserted
    /\ r.total_processed >= 0 /\ r.total_failed >= 0
    /\ r.total_inserted >= 0 /\ r.physics_violations >= 0

\* C28: every PipelineResult returned by run_pipeline, on every return path
\* (assimilation failure, no parsable record, backend failure, database
\* failure, success), has total_processed = total_failed +
\* physics_violations + total_inserted with all counts non-negative, and
\* constructing it never raises PipelineMetricValidationError.
C28_ResultCountsBalance ==
    /\ PipelineReturned => CountsBalance(orun.result)
    /\ orun.raised # "PipelineMetricValidationError"

\* The counts of a returned result balance on every path.
ReturnedCountsBalance == PipelineReturned => CountsBalance(orun.result)

Accepted == Len(orun.record_lengths)

SixLists ==
    <<orun.t_list, orun.s_list, orun.sigma_list, orun.kappa_list,
      orun.credibility_list>>

\* C29: after each iteration of the record-parsing loop the lists t_list,
\* s_list, sigma_list, kappa_list, credibility_list and record_lengths all
\* have the same length, the number of records accepted so far (the rows
\* seen less the failed ones), and their i-th entries come from the same
\* row and have the same number of points.
C29_ListsStayAligned ==
    orun.pc = "parse" =>
        /\ \A k \in 1..5 : Len(SixLists[k]) = Accepted
        /\ Accepted = (orun.idx - 1) - orun.total_failed
        /\ \A k \in 1..5 : \A i \in 1..Len(SixLists[k]) :
                i <= Accepted =>
                    /\ SixLists[k][i].row = orun.record_lengths[i].row
                    /\ Len(SixLists[k][i].points) = orun.record_lengths[i].n

\* ------------------------------------------------------------------------
\* Claims about the connection managers
\* ------------------------------------------------------------------------

\* C30: after any sequence of calls to PostgresManager() or
\* get_postgres_manager() (and likewise Neo4jManager), including calls that
\* follow a failed initialization and concurrent first calls from several
\* threads, at most one instance has ever been created, and every instance
\* returned to a caller is one whose _initialize completed.
C30_OneInitializedInstance ==
    \A c \in Managers :
        /\ mcls[c].created <= 1
        /\ \A r \in mcls[c].returned : r.complete

====
